---- MODULE Spec2Model ----
(***************************************************************************)
(* Deal reconciliation engine of marketing-automation.                     *)
(*                                                                         *)
(* generateDeals (src/src/lib/model/database.ts:324) is modelled as a      *)
(* state machine: the age filter, one step per group handed to             *)
(* DealActionGenerator.generateActionsForMatchedGroup, the mapping of the  *)
(* create actions, one step per iteration of the update loop, the return.  *)
(* The "3x" harness of src/unnamed/part_000:10-37 pipes the result of a    *)
(* run into the deal snapshot of the next run.                             *)
(*                                                                         *)
(* Values.  Dates (maintenanceStartDate, saleDate, closedate) are ISO date *)
(* strings in the program, compared as strings; they are day numbers here. *)
(* vendorAmount is a number with two decimals, held in cents here; the     *)
(* amount property is the string the program formats from it.  An absent   *)
(* optional value (undefined, null) is the empty sequence, a present one   *)
(* the one-element sequence.  A property bag is a function from property   *)
(* names to values; a partial bag has a smaller domain.                    *)
(***************************************************************************)
EXTENDS Integers, Sequences, FiniteSets, TLC

VARIABLES
    data,                 \* the argument of generateDeals
    now,                  \* Date.now(), in days
    pc,                   \* position in generateDeals
    run,                  \* which run of the harness this is
    matches,              \* the groups that passed the age filter
    gi,                   \* index of the next group of matches
    dealCreateActions,    \* DealActionGenerator.dealCreateActions
    dealUpdateActions,    \* DealActionGenerator.dealUpdateActions
    ignoredLicenseSets,   \* DealActionGenerator.ignoredLicenseSets
    dealsToCreate,        \* result lists of generateDeals
    dealsToUpdate,
    associationsToCreate,
    associationsToRemove,
    ui,                   \* index of the next element of dealUpdateActions
    events,               \* the argument of ActionGenerator.generateFrom
    ei,                   \* index of the next event
    actions,              \* the actions generateFrom has collected
    previous,             \* the results of the earlier runs on the same arguments
    db,                   \* the Database object and the state of its downloadAllData
    dealManager,          \* the DealManager: its two indexes and its last addIndexes call
    redactor              \* a redactor of makeRedactor: its map and the position of its call

vars == <<data, now, pc, run, matches, gi, dealCreateActions, dealUpdateActions,
          ignoredLicenseSets, dealsToCreate, dealsToUpdate,
          associationsToCreate, associationsToRemove, ui, events, ei, actions,
          previous, db, dealManager, redactor>>

\* the variables of generateDeals and those of ActionGenerator
dealVars == <<now, run, matches, gi, dealCreateActions, dealUpdateActions,
              ignoredLicenseSets, dealsToCreate, dealsToUpdate,
              associationsToCreate, associationsToRemove, ui, previous>>

eventVars == <<events, ei, actions>>

\* the variables of the utilities around the engine
utilityVars == <<dealManager, redactor>>

-----------------------------------------------------------------------------
(* Bounds of the model *)

MaxDate == 2
MaxRuns == 2
MaxEvents == 2
MaxReplays == 1
MaxIndexings == 2
MaxSnapshot == 2

(* Program constants *)

NINETY_DAYS == 90

\* the moments of a run: the day after the last date of the records, and
\* ninety and ninety-one days after it
Clocks == {MaxDate + 1, MaxDate + 1 + NINETY_DAYS, MaxDate + 2 + NINETY_DAYS}

EVAL == "EVAL"
CLOSED_WON == "CLOSED_WON"
CLOSED_LOST == "CLOSED_LOST"
DealStages == {EVAL, CLOSED_WON, CLOSED_LOST}

-----------------------------------------------------------------------------
(* Array helpers *)

Range(s) == {s[i] : i \in 1..Len(s)}

Includes(s, x) == \E i \in 1..Len(s) : s[i] = x

\* _.uniq: the first occurrence of every element, in order
RECURSIVE Uniq(_)
Uniq(s) ==
    IF s = <<>> THEN <<>>
    ELSE LET init == Uniq(SubSeq(s, 1, Len(s) - 1))
             last == s[Len(s)]
         IN IF Includes(init, last) THEN init ELSE Append(init, last)

\* the comparator sorter(x => x[f], 'ASC'): negative exactly when a sorts first
sorter(a, b, f) == a[f] < b[f]

RECURSIVE InsertSorted(_, _, _)
InsertSorted(x, s, f) ==
    IF s = <<>> THEN <<x>>
    ELSE IF sorter(x, Head(s), f) THEN <<x>> \o s
    ELSE <<Head(s)>> \o InsertSorted(x, Tail(s), f)

\* Array.prototype.sort with that comparator: a stable sort
RECURSIVE SortAsc(_, _)
SortAsc(s, f) ==
    IF s = <<>> THEN <<>>
    ELSE InsertSorted(s[Len(s)], SortAsc(SubSeq(s, 1, Len(s) - 1), f), f)

\* groups.flatMap(g => g.transactions)
RECURSIVE FlatTransactions(_)
FlatTransactions(groups) ==
    IF groups = <<>> THEN <<>>
    ELSE Head(groups).transactions \o FlatTransactions(Tail(groups))

\* groups.map(g => g.license)
LicensesOf(groups) == [i \in 1..Len(groups) |-> groups[i].license]

\* the smallest of a non-empty sequence of dates: dates.sort()[0]
MinDate(dates) == CHOOSE d \in Range(dates) : \A e \in Range(dates) : d <= e

\* {...a, ...b}
Merge(a, b) ==
    [k \in DOMAIN a \cup DOMAIN b |-> IF k \in DOMAIN b THEN b[k] ELSE a[k]]

-----------------------------------------------------------------------------
(* Number formatting *)

\* the vendor amounts of the model, in cents: 0, 99.5, 100
Amounts == {0, 9950, 10000}

\* Number.prototype.toFixed(2)
ToFixed2(n) ==
    CASE n = 0 -> "0.00"
      [] n = 1999 -> "19.99"
      [] n = 9950 -> "99.50"
      [] n = 10000 -> "100.00"

\* Number.prototype.toString()
NumToString(n) ==
    CASE n = 0 -> "0"
      [] n = 1999 -> "19.99"
      [] n = 9950 -> "99.5"
      [] n = 10000 -> "100"

-----------------------------------------------------------------------------
(* Emails.  An email is <<local part, domain>>. *)

NoEmail == <<>>

\* String.prototype.toLowerCase on the domain spellings of the model
ToLowerCase(s) ==
    CASE s = "GMAIL.com" -> "gmail.com"
      [] s = "Partner.io" -> "partner.io"
      [] OTHER -> s

\* email.toLowerCase().split('@')[1]
LowerDomain(email) == ToLowerCase(email[2])

-----------------------------------------------------------------------------
(* Records of the data model.  A license carries addonLicenseId,           *)
(* licenseType, status, maintenanceStartDate, techEmail, billingEmail,     *)
(* partnerEmail (the last two optional), hosting, addonKey, country, tier. *)
(* A transaction carries transactionId, addonLicenseId, saleDate,          *)
(* saleType, vendorAmount, tier.  A deal is [id, properties, contactIds].  *)

isTransaction(record) == "transactionId" \in DOMAIN record

\* config.constants and Pipeline.AtlassianMarketplace
dealOrigin == "config.dealOrigin"
dealRelatedProducts == "config.dealRelatedProducts"
dealDealName == "config.dealDealName"
AtlassianMarketplace == "Pipeline.AtlassianMarketplace"

\* mustache.render(template, { license }): determined by the template and the license
Render(template, license) == <<template, license>>

\* calculateTierFromLicenseContext: the tier candidates of the license and
\* of its transactions
calculateTierFromLicenseContext(license, transactions) ==
    {license.tier} \cup {transactions[i].tier : i \in 1..Len(transactions)}

Max(S) == CHOOSE x \in S : \A y \in S : y <= x

isFreeLicense(license) ==
    license.licenseType = "EVALUATION" \/ license.licenseType = "OPEN_SOURCE"

olderThan90Days(date, t) == t - date > NINETY_DAYS

\* the sale of the latest date
latestPaidTransaction(transactions) ==
    LET paid == SelectSeq(SortAsc(transactions, "saleDate"),
                          LAMBDA tx : tx.saleType # "Refund")
    IN IF paid = <<>> THEN <<>> ELSE <<paid[Len(paid)]>>

\* transactions.sort(sorter(saleDate, 'ASC')).find(tx => saleType !== 'Refund')
firstPaidTransaction(transactions) ==
    LET paid == SelectSeq(SortAsc(transactions, "saleDate"),
                          LAMBDA tx : tx.saleType # "Refund")
    IN IF paid = <<>> THEN <<>> ELSE <<paid[1]>>

dealPropertiesForLicense(license, transactions) ==
    LET tier == Max(calculateTierFromLicenseContext(license, transactions))
        first == firstPaidTransaction(transactions)
        amount == IF first = <<>> THEN 0 ELSE first[1].vendorAmount
    IN [ addonlicenseid |-> license.addonLicenseId,
         transactionid |-> "",
         closedate |-> IF transactions # <<>>
                       THEN MinDate([i \in 1..Len(transactions) |-> transactions[i].saleDate])
                       ELSE license.maintenanceStartDate,
         deployment |-> license.hosting,
         aa_app |-> license.addonKey,
         license_tier |-> ToString(tier),
         country |-> license.country,
         origin |-> dealOrigin,
         related_products |-> dealRelatedProducts,
         dealname |-> Render(dealDealName, license),
         pipeline |-> AtlassianMarketplace,
         amount |-> NumToString(amount) ]

\* contacts[email]?.hs_object_id, absent for an absent email or an email
\* the directory does not hold
ContactId(contacts, email) ==
    IF email # NoEmail /\ email \in DOMAIN contacts
    THEN <<contacts[email].hs_object_id>> ELSE <<>>

\* the ids of the three contacts, repeated when two are the same contact
allContactIds(contacts, license) ==
    ContactId(contacts, license.techEmail)
    \o ContactId(contacts, license.billingEmail)
    \o ContactId(contacts, license.partnerEmail)

contactIdsForLicense(contacts, license) ==
    Uniq(ContactId(contacts, license.techEmail)
         \o ContactId(contacts, license.billingEmail)
         \o ContactId(contacts, license.partnerEmail))

-----------------------------------------------------------------------------
(* DealFinder: the two indexes over the deal snapshot and the lookups.     *)

\* the index entry of a record: the last deal of the snapshot carrying the
\* record's identifier, none for an empty identifier
getById(deals, record) ==
    LET key == IF isTransaction(record) THEN "transactionid" ELSE "addonlicenseid"
        id == IF isTransaction(record) THEN record.transactionId
              ELSE record.addonLicenseId
        hits == {i \in 1..Len(deals) : deals[i].properties[key] = id}
    IN IF id = "" \/ hits = {} THEN <<>> ELSE <<deals[Max(hits)]>>

RECURSIVE FoundDeals(_, _)
FoundDeals(deals, records) ==
    IF records = <<>> THEN <<>>
    ELSE getById(deals, Head(records)) \o FoundDeals(deals, Tail(records))

\* the distinct deals the records reference
getDeals(deals, records) == Uniq(FoundDeals(deals, records))

\* the deal the records reference, if any
getDeal(deals, records) ==
    LET found == getDeals(deals, records)
    IN IF found = <<>> THEN <<>> ELSE <<found[1]>>

-----------------------------------------------------------------------------
(* DealActionGenerator *)

\* what one call of generateActionsForMatchedGroup appends to
\* dealCreateActions, dealUpdateActions and ignoredLicenseSets, and whether
\* an assertion of it failed
NoAction == [create |-> <<>>, update |-> <<>>, ignored |-> <<>>, thrown |-> FALSE]

RECURSIVE join(_, _)
\* Array.prototype.join
join(strings, separator) ==
    IF strings = <<>> THEN ""
    ELSE IF Len(strings) = 1 THEN strings[1]
    ELSE strings[1] \o separator \o join(Tail(strings), separator)

\* the licenses without the reason
ignoreUntagged(reason, licenses) == [reason |-> "", licenses |-> licenses]

\* the entry ignoreLicenses pushes: the licenses, each tagged with the reason
ignoreLicenses(reason, licenses) == [reason |-> reason, licenses |-> licenses]

\* the domains of the group that are partner or mass-provider domains
badDomains(groups, providerDomains, partnerDomains) ==
    SelectSeq([i \in 1..Len(groups) |-> LowerDomain(groups[i].license.techEmail)],
              LAMBDA domain : domain \in partnerDomains \/ domain \in providerDomains)

\* the same test on the domains as they are spelled in the emails
ignoringAsSpelled(groups, providerDomains, partnerDomains) ==
    \A i \in 1..Len(groups) :
        groups[i].license.techEmail[2] \in partnerDomains \cup providerDomains

ignoring(groups, providerDomains, partnerDomains) ==
    Len(badDomains(groups, providerDomains, partnerDomains)) = Len(groups)

\* a deal that the snapshot does not hold
strayDeal(deals, groups) ==
    << [ id |-> "stray",
         properties |-> [ addonlicenseid |-> "", transactionid |-> "",
                          closedate |-> 0, dealstage |-> EVAL, amount |-> "" ],
         contactIds |-> <<>> ] >>

\* licenseDeals: the deals of the group's licenses, in group order
RECURSIVE licenseDeals(_, _)
licenseDeals(deals, licenses) ==
    IF licenses = <<>> THEN <<>>
    ELSE LET init == licenseDeals(deals, SubSeq(licenses, 1, Len(licenses) - 1))
             deal == getDeal(deals, <<licenses[Len(licenses)]>>)
         IN IF deal # <<>> /\ ~Includes(init, deal[1]) THEN Append(init, deal[1])
            ELSE init

\* let deal = licenseDeals.size > 0 ? [...licenseDeals][0] : null
groupDeal(deals, groups) ==
    LET found == licenseDeals(deals, LicensesOf(groups))
    IN IF Len(found) > 0 THEN <<found[1]>> ELSE <<>>

\* the earliest license
earliestLicenseOf(licenses) == licenses[1]

\* const latestLicense = licenses[licenses.length - 1]
latestLicenseOf(licenses) == licenses[Len(licenses)]

\* only the license id is compared
licenseIdChanged(closeDate, latestLicense, deal) ==
    latestLicense.addonLicenseId # deal.properties.addonlicenseid

\* the eval deal is out of date: its close date or its license id changed
evalChanged(closeDate, latestLicense, deal) ==
    \/ closeDate # deal.properties.closedate
    \/ latestLicense.addonLicenseId # deal.properties.addonlicenseid

\* nothing is asserted
assertNothing(groups) == TRUE

\* assert.ok(groups.flatMap(g => g.transactions).length === 0)
assertNoTransactions(groups) == Len(FlatTransactions(groups)) = 0

\* the update of the deal to the license, without a stage
relinkUpdate(deal, latestLicense, transactions) ==
    [ id |-> deal[1].id,
      license |-> <<>>,
      transactions |-> transactions,
      properties |-> [ addonlicenseid |-> latestLicense.addonLicenseId ] ]

\* the update of the deal of an inactive eval
closeLostUpdate(deal, latestLicense, transactions) ==
    [ id |-> deal[1].id,
      license |-> <<>>,
      transactions |-> transactions,
      properties |-> [ addonlicenseid |-> latestLicense.addonLicenseId,
                       dealstage |-> CLOSED_LOST ] ]

\* the branch of a group of free licenses only
onlyEvals(groups, deal, licenses) ==
    LET latestLicense == latestLicenseOf(licenses)
        transactions == FlatTransactions(groups)
    IN IF ~assertNoTransactions(groups) THEN [NoAction EXCEPT !.thrown = TRUE]
       ELSE IF deal # <<>>
       THEN IF latestLicense.status = "active"
            THEN LET closeDate ==
                         IF transactions # <<>>
                         THEN MinDate([i \in 1..Len(transactions) |-> transactions[i].saleDate])
                         ELSE latestLicense.maintenanceStartDate
                 IN IF evalChanged(closeDate, latestLicense, deal[1])
                    THEN [NoAction EXCEPT !.update = <<
                            [ id |-> deal[1].id,
                              license |-> <<>>,
                              transactions |-> transactions,
                              properties |-> [ addonlicenseid |-> latestLicense.addonLicenseId,
                                               closedate |-> closeDate ] ] >>]
                    ELSE [NoAction EXCEPT !.ignored =
                            <<ignoreLicenses("eval-up-to-date", licenses)>>]
            ELSE [NoAction EXCEPT !.update =
                    <<closeLostUpdate(deal, latestLicense, transactions)>>]
       ELSE IF latestLicense.status = "active"
            THEN [NoAction EXCEPT !.create = <<
                    [ dealstage |-> EVAL,
                      transactions |-> transactions,
                      license |-> latestLicense,
                      amount |-> "0" ] >>]
            ELSE [NoAction EXCEPT !.ignored =
                    <<ignoreLicenses("inactive-evals", licenses)>>]

\* the transactions of the group that are not refunds, by sale date
paidTransactions(groups) ==
    SortAsc(SelectSeq(FlatTransactions(groups), LAMBDA tx : tx.saleType # "Refund"),
            "saleDate")

\* the vendor amount of the latest of them
priceOfLatest(transactions) ==
    IF transactions = <<>> THEN <<>>
    ELSE <<transactions[Len(transactions)].vendorAmount>>

\* the vendor amount of the first of them, if any
priceOf(transactions) ==
    IF transactions = <<>> THEN <<>> ELSE <<transactions[1].vendorAmount>>

\* ...(price && { amount: price.toFixed(2) }): nothing for an absent or zero price
amountOverride(price) ==
    IF price # <<>> /\ price[1] # 0 THEN [amount |-> ToFixed2(price[1])] ELSE <<>>

\* (price ?? 0).toFixed(2)
createAmount(price) == ToFixed2(IF price = <<>> THEN 0 ELSE price[1])

\* the deal is put back to the eval stage
reopenUpdate(deal, firstFoundPaid, transactions, price) ==
    [ id |-> deal[1].id,
      license |-> <<firstFoundPaid>>,
      transactions |-> transactions,
      properties |-> [ addonlicenseid |-> firstFoundPaid.addonLicenseId,
                       dealstage |-> EVAL ] ]

closeWonUpdate(deal, firstFoundPaid, transactions, price) ==
    [ id |-> deal[1].id,
      license |-> <<firstFoundPaid>>,
      transactions |-> transactions,
      properties |-> Merge([ addonlicenseid |-> firstFoundPaid.addonLicenseId,
                             dealstage |-> CLOSED_WON ],
                           amountOverride(price)) ]

closeWonCreate(firstFoundPaid, transactions, price) ==
    [ dealstage |-> CLOSED_WON,
      license |-> firstFoundPaid,
      transactions |-> transactions,
      amount |-> createAmount(price) ]

\* any deal is upgraded
isAnyDeal(deal) == TRUE

\* only close/update evals, leave closed deals alone
isStaleEval(deal) == deal.properties.dealstage = EVAL

\* the branch of a group with a paid license
somePaid(groups, deal, licenses) ==
    LET isFirstEval == isFreeLicense(licenses[1])
        paid == SelectSeq(licenses, LAMBDA l : ~isFreeLicense(l))
        transactions == paidTransactions(groups)
        price == priceOf(transactions)
    IN IF paid = <<>> THEN NoAction
       ELSE LET firstFoundPaid == paid[1] IN
            IF isFirstEval
            THEN IF deal # <<>>
                 THEN [NoAction EXCEPT !.update =
                         <<closeWonUpdate(deal, firstFoundPaid, transactions, price)>>]
                 ELSE [NoAction EXCEPT !.create =
                         <<closeWonCreate(firstFoundPaid, transactions, price)>>]
            ELSE IF deal # <<>>
                 THEN IF isStaleEval(deal[1])
                      THEN [NoAction EXCEPT !.update =
                              <<closeWonUpdate(deal, firstFoundPaid, transactions, price)>>]
                      ELSE NoAction
                 ELSE [NoAction EXCEPT !.create =
                         <<closeWonCreate(firstFoundPaid, transactions, price)>>]

\* the group is recorded as ignored and classified all the same
actionsDespiteIgnoring(groups, deals, providerDomains, partnerDomains) ==
    IF Len(groups) = 0 THEN [NoAction EXCEPT !.thrown = TRUE]
    ELSE LET deal == groupDeal(deals, groups)
             licenses == SortAsc(LicensesOf(groups), "maintenanceStartDate")
             out == IF \A i \in 1..Len(licenses) : isFreeLicense(licenses[i])
                    THEN onlyEvals(groups, deal, licenses)
                    ELSE somePaid(groups, deal, licenses)
         IN IF ignoring(groups, providerDomains, partnerDomains)
            THEN [out EXCEPT !.ignored = <<ignoreLicenses(
                    "bad-domains:"
                        \o join(Uniq(badDomains(groups, providerDomains, partnerDomains)), ","),
                    LicensesOf(groups))>> \o @]
            ELSE out

\* generateActionsForMatchedGroup, as what it appends
actionsForMatchedGroup(groups, deals, providerDomains, partnerDomains) ==
    IF Len(groups) = 0 THEN [NoAction EXCEPT !.thrown = TRUE]
    ELSE IF ignoring(groups, providerDomains, partnerDomains)
    THEN [NoAction EXCEPT !.ignored = <<ignoreLicenses(
            "bad-domains:"
                \o join(Uniq(badDomains(groups, providerDomains, partnerDomains)), ","),
            LicensesOf(groups))>>]
    ELSE LET deal == groupDeal(deals, groups)
             licenses == SortAsc(LicensesOf(groups), "maintenanceStartDate")
         IN IF \A i \in 1..Len(licenses) : isFreeLicense(licenses[i])
            THEN onlyEvals(groups, deal, licenses)
            ELSE somePaid(groups, deal, licenses)

-----------------------------------------------------------------------------
(* generateDeals *)

\* group.every(m => !olderThan90Days(m.license.maintenanceStartDate))
everyRecent(group, t) ==
    \A i \in 1..Len(group) : ~olderThan90Days(group[i].license.maintenanceStartDate, t)

\* group.some(m => !olderThan90Days(m.license.maintenanceStartDate))
recentGroup(group, t) ==
    \E i \in 1..Len(group) : ~olderThan90Days(group[i].license.maintenanceStartDate, t)

\* the request built from a create action
dealToCreate(action, contacts) ==
    [ contactIds |-> contactIdsForLicense(contacts, action.license),
      properties |-> Merge(dealPropertiesForLicense(action.license, action.transactions),
                           [amount |-> action.amount, dealstage |-> action.dealstage]) ]

\* the properties of an update action before the diff
mergedProperties(action) ==
    IF action.license # <<>>
    THEN Merge(dealPropertiesForLicense(action.license[1], action.transactions),
               action.properties)
    ELSE action.properties

\* no property is deleted
keepAll(properties, oldDeal) == properties

\* the diff: every property whose value is the stored one is deleted
stripUnchanged(properties, oldDeal) ==
    LET changed == {k \in DOMAIN properties :
                       \/ k \notin DOMAIN oldDeal.properties
                       \/ properties[k] # oldDeal.properties[k]}
    IN [k \in changed |-> properties[k]]

\* an entry for every id
allEntries(ids, others, dealId) ==
    [i \in 1..Len(ids) |-> [contactId |-> ids[i], dealId |-> dealId]]

\* the association entries of an update action that carries a license
associationEntries(ids, others, dealId) ==
    LET fresh == SelectSeq(ids, LAMBDA id : ~Includes(others, id))
    IN [i \in 1..Len(fresh) |-> [contactId |-> fresh[i], dealId |-> dealId]]

\* the keys are deleted from the stored deal
storedObject(action) == "oldDeal"

\* the object that newDeal.properties is, and whose keys the diff deletes:
\* a new object for an action with a license, else the properties object of
\* the action itself
strippedObject(action) == IF action.license # <<>> THEN "newDeal" ELSE "action"

\* delete on the properties object of a stored deal: every value is the
\* stored one, so every key goes
deleteFromDeal(deals, id) ==
    [i \in 1..Len(deals) |->
        IF deals[i].id = id THEN [deals[i] EXCEPT !.properties = <<>>] ELSE deals[i]]

\* generateDeals is entered: the age filter, and a new DealActionGenerator
Start ==
    /\ pc = "start"
    /\ matches' = SelectSeq(data.allMatches, LAMBDA group : recentGroup(group, now))
    /\ gi' = 1
    /\ dealCreateActions' = <<>>
    /\ dealUpdateActions' = <<>>
    /\ ignoredLicenseSets' = <<>>
    /\ pc' = "classify"
    /\ UNCHANGED <<utilityVars, data, now, run, dealsToCreate, dealsToUpdate,
                   associationsToCreate, associationsToRemove, ui, eventVars, previous, db>>

\* one iteration of the loop of generateDealActions
generateActionsForMatchedGroup ==
    /\ pc = "classify"
    /\ gi <= Len(matches)
    /\ LET out == actionsForMatchedGroup(matches[gi], data.initialDeals,
                                         data.providerDomains, data.partnerDomains)
       IN /\ dealCreateActions' = dealCreateActions \o out.create
          /\ dealUpdateActions' = dealUpdateActions \o out.update
          /\ ignoredLicenseSets' = ignoredLicenseSets \o out.ignored
          /\ pc' = IF out.thrown THEN "aborted" ELSE pc
    /\ gi' = gi + 1
    /\ UNCHANGED <<utilityVars, data, now, run, matches, dealsToCreate, dealsToUpdate,
                   associationsToCreate, associationsToRemove, ui, eventVars, previous, db>>

\* generateDealActions returns; the create actions are mapped to requests
mapCreateActions ==
    /\ pc = "classify"
    /\ gi > Len(matches)
    /\ dealsToCreate' = [i \in 1..Len(dealCreateActions) |->
                            dealToCreate(dealCreateActions[i], data.contactsByEmail)]
    /\ dealsToUpdate' = <<>>
    /\ associationsToCreate' = <<>>
    /\ associationsToRemove' = <<>>
    /\ ui' = 1
    /\ pc' = "updates"
    /\ UNCHANGED <<utilityVars, data, now, run, matches, gi, dealCreateActions,
                   dealUpdateActions, ignoredLicenseSets, eventVars, previous, db>>

\* one iteration of the loop over dealUpdateActions
processUpdateAction ==
    /\ pc = "updates"
    /\ ui <= Len(dealUpdateActions)
    /\ LET action == dealUpdateActions[ui]
           found == SelectSeq(data.initialDeals, LAMBDA d : d.id = action.id)
       IN IF found = <<>>
          THEN /\ pc' = "aborted"
               /\ UNCHANGED <<utilityVars, data, dealUpdateActions, dealsToUpdate,
                              associationsToCreate, associationsToRemove>>
          ELSE LET oldDeal == found[1]
                   newIds == IF action.license # <<>>
                             THEN contactIdsForLicense(data.contactsByEmail, action.license[1])
                             ELSE <<>>
                   oldIds == IF action.license # <<>> THEN oldDeal.contactIds ELSE <<>>
                   properties == stripUnchanged(mergedProperties(action), oldDeal)
               IN /\ associationsToCreate' = associationsToCreate
                         \o associationEntries(newIds, oldIds, oldDeal.id)
                  /\ associationsToRemove' = associationsToRemove
                         \o associationEntries(oldIds, newIds, oldDeal.id)
                  /\ dealsToUpdate' =
                         IF DOMAIN properties # {}
                         THEN Append(dealsToUpdate, [id |-> action.id, properties |-> properties])
                         ELSE dealsToUpdate
                  /\ dealUpdateActions' =
                         IF strippedObject(action) = "action"
                         THEN [dealUpdateActions EXCEPT ![ui].properties = properties]
                         ELSE dealUpdateActions
                  /\ data' =
                         IF strippedObject(action) = "oldDeal"
                         THEN [data EXCEPT !.initialDeals = deleteFromDeal(@, oldDeal.id)]
                         ELSE data
                  /\ pc' = pc
    /\ ui' = ui + 1
    /\ UNCHANGED <<utilityVars, now, run, matches, gi, dealCreateActions,
                   ignoredLicenseSets, dealsToCreate, eventVars, previous, db>>

\* generateDeals returns the four lists
return ==
    /\ pc = "updates"
    /\ ui > Len(dealUpdateActions)
    /\ pc' = "done"
    /\ UNCHANGED <<utilityVars, data, now, run, matches, gi, dealCreateActions,
                   dealUpdateActions, ignoredLicenseSets, dealsToCreate,
                   dealsToUpdate, associationsToCreate, associationsToRemove, ui,
                   eventVars, previous, db>>

-----------------------------------------------------------------------------
(* The harness: the result of a run becomes the deal snapshot of the next  *)

RECURSIVE applyUpdates(_, _)
applyUpdates(properties, updates) ==
    IF updates = <<>> THEN properties
    ELSE applyUpdates(Merge(properties, Head(updates).properties), Tail(updates))

\* a deal of the snapshot after the updates and association changes of the run
updatedDeal(deal, updates, toCreate, toRemove) ==
    LET kept == SelectSeq(deal.contactIds, LAMBDA c :
                    [contactId |-> c, dealId |-> deal.id] \notin Range(toRemove))
        mine == SelectSeq(toCreate, LAMBDA a : a.dealId = deal.id)
    IN [ id |-> deal.id,
         properties |-> applyUpdates(deal.properties,
                            SelectSeq(updates, LAMBDA u : u.id = deal.id)),
         contactIds |-> Uniq(kept \o [i \in 1..Len(mine) |-> mine[i].contactId]) ]

\* the snapshot after the run: the updated deals, then the created ones
\* with the ids populateFakeIds gives them
pipedDeals(deals, creates, updates, toCreate, toRemove) ==
    [i \in 1..Len(deals) |-> updatedDeal(deals[i], updates, toCreate, toRemove)]
    \o [i \in 1..Len(creates) |->
           [ id |-> "fake-" \o ToString(Len(deals) + i),
             properties |-> creates[i].properties,
             contactIds |-> creates[i].contactIds ]]

pipeOutputToInput ==
    /\ pc = "done"
    /\ run < MaxRuns
    /\ data' = [data EXCEPT !.initialDeals =
                   pipedDeals(data.initialDeals, dealsToCreate, dealsToUpdate,
                              associationsToCreate, associationsToRemove)]
    /\ run' = run + 1
    /\ pc' = "start"
    /\ matches' = <<>>
    /\ gi' = 1
    /\ dealCreateActions' = <<>>
    /\ dealUpdateActions' = <<>>
    /\ ignoredLicenseSets' = <<>>
    /\ dealsToCreate' = <<>>
    /\ dealsToUpdate' = <<>>
    /\ associationsToCreate' = <<>>
    /\ associationsToRemove' = <<>>
    /\ ui' = 1
    /\ UNCHANGED <<utilityVars, now, eventVars, previous, db>>

\* what generateDeals returns
result ==
    [ dealsToCreate |-> dealsToCreate, dealsToUpdate |-> dealsToUpdate,
      associationsToCreate |-> associationsToCreate,
      associationsToRemove |-> associationsToRemove ]

\* generateDeals is called again on the arguments of the run that has
\* returned, at any moment: Date.now() is read anew by olderThan90Days
replay ==
    /\ pc = "done"
    /\ Len(previous) < MaxReplays
    /\ previous' = Append(previous, result)
    /\ now' \in Clocks
    /\ pc' = "start"
    /\ matches' = <<>>
    /\ gi' = 1
    /\ dealCreateActions' = <<>>
    /\ dealUpdateActions' = <<>>
    /\ ignoredLicenseSets' = <<>>
    /\ dealsToCreate' = <<>>
    /\ dealsToUpdate' = <<>>
    /\ associationsToCreate' = <<>>
    /\ associationsToRemove' = <<>>
    /\ ui' = 1
    /\ UNCHANGED <<utilityVars, data, run, eventVars, db>>

-----------------------------------------------------------------------------
(* ActionGenerator.  An event is [type, groups, ...]: an eval event has    *)
(* licenses, a purchase event licenses and an optional transaction, a      *)
(* renewal or upgrade event a transaction, a refund event refundedTxs.     *)

\* getDate: the date of a record
getDate(record) ==
    IF isTransaction(record) THEN record.saleDate ELSE record.maintenanceStartDate

\* dealCreationProperties: the full property bag of a new deal for a record
dealCreationProperties(record, dealstage) ==
    [ addonlicenseid |-> record.addonLicenseId,
      transactionid |-> IF isTransaction(record) THEN record.transactionId ELSE "",
      closedate |-> getDate(record),
      deployment |-> record.hosting,
      aa_app |-> record.addonKey,
      license_tier |-> ToString(record.tier),
      country |-> record.country,
      origin |-> dealOrigin,
      related_products |-> dealRelatedProducts,
      dealname |-> Render(dealDealName, record),
      pipeline |-> AtlassianMarketplace,
      dealstage |-> dealstage,
      amount |-> IF isTransaction(record) THEN NumToString(record.vendorAmount) ELSE "0" ]

\* dealUpdateProperties: the identifying fields of the record that the deal
\* does not carry yet
dealUpdateProperties(deal, record) ==
    LET ids == IF isTransaction(record)
               THEN [ addonlicenseid |-> record.addonLicenseId,
                      transactionid |-> record.transactionId ]
               ELSE [ addonlicenseid |-> record.addonLicenseId ]
    IN [k \in {k \in DOMAIN ids : ids[k] # deal.properties[k]} |-> ids[k]]

makeCreateAction(event, record, dealstage) ==
    [ type |-> "create",
      groups |-> event.groups,
      properties |-> dealCreationProperties(record, dealstage) ]

\* an update action, or none when there is nothing to set
makeUpdateAction(event, deal, record, properties) ==
    LET combinedProperties ==
            Merge(IF record # <<>> THEN dealUpdateProperties(deal, record[1]) ELSE <<>>,
                  properties)
    IN IF DOMAIN combinedProperties = {} THEN <<>>
       ELSE << [ type |-> "update",
                 groups |-> event.groups,
                 deal |-> deal,
                 properties |-> combinedProperties ] >>

\* records.sort(sorter(getDate, 'DSC'))[0]: the first of the records of the
\* latest date
getLatestRecord(event) ==
    LET records == event.licenses \o event.transaction
        i == CHOOSE i \in 1..Len(records) :
                /\ \A j \in 1..Len(records) : getDate(records[j]) <= getDate(records[i])
                /\ \A j \in 1..(i - 1) : getDate(records[j]) < getDate(records[i])
    IN records[i]

\* an eval event refreshes the deal it finds, whatever its stage
refreshAnyDeal(deals, event) ==
    LET deal == getDeal(deals, event.licenses)
        latestLicense == event.licenses[Len(event.licenses)]
    IN IF deal = <<>> THEN <<makeCreateAction(event, latestLicense, EVAL)>>
       ELSE makeUpdateAction(event, deal[1], <<latestLicense>>, <<>>)

actionForEval(deals, event) ==
    LET deal == getDeal(deals, event.licenses)
        latestLicense == event.licenses[Len(event.licenses)]
    IN IF deal = <<>> THEN <<makeCreateAction(event, latestLicense, EVAL)>>
       ELSE IF deal[1].properties.dealstage = EVAL
       THEN makeUpdateAction(event, deal[1], <<latestLicense>>, <<>>)
       ELSE <<>>

\* the deal of a purchase: by the transaction, else by the licenses
transactionFirstDeal(deals, event) ==
    LET byTransaction == getDeal(deals, event.transaction)
    IN IF byTransaction # <<>> THEN byTransaction ELSE getDeal(deals, event.licenses)

\* the deal of a purchase: by the licenses, else by the transaction
purchaseDeal(deals, event) ==
    LET byLicense == getDeal(deals, event.licenses)
    IN IF byLicense # <<>> THEN byLicense ELSE getDeal(deals, event.transaction)

\* a purchase closes every deal it finds that is not won yet
closeUnlessWon(deals, event) ==
    LET deal == purchaseDeal(deals, event)
        record == getLatestRecord(event)
    IN IF deal = <<>> THEN <<makeCreateAction(event, record, CLOSED_WON)>>
       ELSE IF deal[1].properties.dealstage # CLOSED_WON
       THEN makeUpdateAction(event, deal[1], <<record>>, [dealstage |-> CLOSED_WON])
       ELSE <<>>

actionForPurchase(deals, event) ==
    LET deal == purchaseDeal(deals, event)
        record == getLatestRecord(event)
    IN IF deal = <<>> THEN <<makeCreateAction(event, record, CLOSED_WON)>>
       ELSE IF deal[1].properties.dealstage = EVAL
       THEN makeUpdateAction(event, deal[1], <<record>>, [dealstage |-> CLOSED_WON])
       ELSE <<>>

actionForRenewal(event) == makeCreateAction(event, event.transaction, CLOSED_WON)

RECURSIVE Present(_)
\* .filter(isPresent) of a list of optional values
Present(options) ==
    IF options = <<>> THEN <<>> ELSE Head(options) \o Present(Tail(options))

\* every deal is closed again
isAnyStage(deal) == TRUE

\* deal.properties.dealstage !== DealStage.CLOSED_LOST
isNotLost(deal) == deal.properties.dealstage # CLOSED_LOST

actionForRefund(deals, event) ==
    LET open == SelectSeq(getDeals(deals, event.refundedTxs), isNotLost)
    IN Present([i \in 1..Len(open) |->
                  makeUpdateAction(event, open[i], <<>>, [dealstage |-> CLOSED_LOST])])

\* a renewal or upgrade creates its deal only when no deal carries the id of
\* its transaction
actionsWithLookup(deals, event) ==
    CASE event.type = "eval" -> actionForEval(deals, event)
      [] event.type = "purchase" -> actionForPurchase(deals, event)
      [] event.type \in {"renewal", "upgrade"} ->
            IF getDeal(deals, <<event.transaction>>) = <<>>
            THEN <<actionForRenewal(event)>> ELSE <<>>
      [] event.type = "refund" -> actionForRefund(deals, event)

actionsFor(deals, event) ==
    CASE event.type = "eval" -> actionForEval(deals, event)
      [] event.type = "purchase" -> actionForPurchase(deals, event)
      [] event.type = "renewal" -> <<actionForRenewal(event)>>
      [] event.type = "upgrade" -> <<actionForRenewal(event)>>
      [] event.type = "refund" -> actionForRefund(deals, event)

\* generateFrom: one element of events.flatMap(event => this.actionsFor(event))
actionsForEvent ==
    /\ pc = "events"
    /\ ei <= Len(events)
    /\ actions' = actions \o actionsFor(data.initialDeals, events[ei])
    /\ ei' = ei + 1
    /\ UNCHANGED <<utilityVars, data, pc, events, dealVars, db>>

\* generateFrom returns the actions
generateFromReturns ==
    /\ pc = "events"
    /\ ei > Len(events)
    /\ pc' = "generated"
    /\ UNCHANGED <<utilityVars, data, events, ei, actions, dealVars, db>>

-----------------------------------------------------------------------------
(* Database.downloadAllData.  db.remote is what the remote services hold,  *)
(* db.first and db.second are the states of the promises of the two        *)
(* Promise.all batches, db.results what the fulfilled promises of the      *)
(* first batch gave, db.entities what the managers have downloaded.        *)

\* the downloads of the first batch, in the order of the array
FirstBatch ==
    << "freeDomains", "licensesWithDataInsights", "licensesWithoutDataInsights",
       "allTransactions", "allContacts", "allDeals", "allCompanies", "allTlds" >>

\* the downloads of the second batch: downloadAllCompanies,
\* downloadAllContacts, downloadAllDeals
SecondBatch == << "DB-Companies", "DB-Contacts", "DB-Deals" >>

\* what the services hold: the version of the feeds
Remotes == {"a", "b"}

\* what a download gives: the list of the records of the feed
Downloaded(name, remote) == << <<name, remote>> >>

\* makeMultiProviderDomainsSet
makeMultiProviderDomainsSet(freeDomains) == {<<"provider", d>> : d \in Range(freeDomains)}

\* makeEmailValidationRegex
makeEmailValidationRegex(tlds) == <<"regex", tlds>>

\* validateMarketplaceData
validateMarketplaceData(withInsights, withoutInsights, transactions, emailRe) ==
    [ allLicenses |-> [i \in 1..Len(withInsights \o withoutInsights) |->
                          <<"valid", (withInsights \o withoutInsights)[i], emailRe>>],
      allTransactions |-> [i \in 1..Len(transactions) |->
                              <<"valid", transactions[i], emailRe>>] ]

normalizeLicense(license) == <<"normalized", license>>

normalizeTransaction(transaction) == <<"normalized", transaction>>

\* the fields of a new Database
EmptyFields ==
    [ providerDomains |-> {}, allLicenses |-> <<>>, allTransactions |-> <<>>,
      licenses |-> <<>>, transactions |-> <<>>,
      allDeals |-> <<>>, allCompanies |-> <<>>, allContacts |-> <<>> ]

\* the Database after its constructor, at a position of downloadAllData
NewDatabase(remote, at) ==
    [ at |-> at,
      remote |-> remote,
      first |-> [i \in 1..Len(FirstBatch) |-> "pending"],
      results |-> [i \in 1..Len(FirstBatch) |-> <<>>],
      last |-> 0,
      second |-> [i \in 1..Len(SecondBatch) |-> "unstarted"],
      entities |-> [i \in 1..Len(SecondBatch) |-> <<>>],
      fields |-> EmptyFields ]

\* some promise is fulfilled
someFulfilled(promises) == \E i \in 1..Len(promises) : promises[i] = "fulfilled"

\* Promise.all is fulfilled when every promise is
allFulfilled(promises) == \A i \in 1..Len(promises) : promises[i] = "fulfilled"

\* Promise.all is rejected when a promise is
someRejected(promises) == \E i \in 1..Len(promises) : promises[i] = "rejected"

\* the assignments after the two awaits
assignedFields(results) ==
    LET freeDomains == results[1]
        licensesWithDataInsights == results[2]
        licensesWithoutDataInsights == results[3]
        allTransactions == results[4]
        allContacts == results[5]
        allDeals == results[6]
        allCompanies == results[7]
        allTlds == results[8]
        emailRe == makeEmailValidationRegex(allTlds)
        validated == validateMarketplaceData(licensesWithDataInsights,
                         licensesWithoutDataInsights, allTransactions, emailRe)
    IN [ providerDomains |-> makeMultiProviderDomainsSet(freeDomains),
         allLicenses |-> validated.allLicenses,
         allTransactions |-> validated.allTransactions,
         licenses |-> [i \in 1..Len(validated.allLicenses) |->
                          normalizeLicense(validated.allLicenses[i])],
         transactions |-> [i \in 1..Len(validated.allTransactions) |->
                              normalizeTransaction(validated.allTransactions[i])],
         allDeals |-> allDeals,
         allCompanies |-> allCompanies,
         allContacts |-> allContacts ]

\* a download of the first batch completes or fails, in any order, also
\* after downloadAllData has been rejected
downloadSettles ==
    /\ db.at \in {"batch1", "rejected"}
    /\ \E i \in 1..Len(FirstBatch) :
          /\ db.first[i] = "pending"
          /\ \/ db' = [db EXCEPT !.first[i] = "fulfilled",
                                 !.results[i] = Downloaded(FirstBatch[i], db.remote),
                                 !.last = i]
             \/ db' = [db EXCEPT !.first[i] = "rejected", !.last = i]
    /\ UNCHANGED <<utilityVars, data, pc, dealVars, eventVars>>

\* the first await returns: the three downloads of the managers are started
awaitDownloads ==
    /\ db.at = "batch1"
    /\ allFulfilled(db.first)
    /\ db' = [db EXCEPT !.at = "batch2",
                        !.second = [i \in 1..Len(SecondBatch) |-> "pending"]]
    /\ UNCHANGED <<utilityVars, data, pc, dealVars, eventVars>>

\* downloadAllEntities of a manager completes or fails, in any order
entitiesDownloadSettles ==
    /\ db.at \in {"batch2", "rejected"}
    /\ \E i \in 1..Len(SecondBatch) :
          /\ db.second[i] = "pending"
          /\ \/ db' = [db EXCEPT !.second[i] = "fulfilled",
                                 !.entities[i] = Downloaded(SecondBatch[i], db.remote)]
             \/ db' = [db EXCEPT !.second[i] = "rejected"]
    /\ UNCHANGED <<utilityVars, data, pc, dealVars, eventVars>>

\* the second await returns, and the fields are assigned
assignSnapshot ==
    /\ db.at = "batch2"
    /\ allFulfilled(db.second)
    /\ db' = [db EXCEPT !.at = "resolved", !.fields = assignedFields(db.results)]
    /\ UNCHANGED <<utilityVars, data, pc, dealVars, eventVars>>

\* an await throws: downloadAllData is rejected
downloadAllDataRejects ==
    /\ \/ db.at = "batch1" /\ someRejected(db.first)
       \/ db.at = "batch2" /\ someRejected(db.second)
    /\ db' = [db EXCEPT !.at = "rejected"]
    /\ UNCHANGED <<utilityVars, data, pc, dealVars, eventVars>>

-----------------------------------------------------------------------------
(* DealManager.  An identifier of DealData is <<>> for null and <<s>> for  *)
(* the string s; a Map is a function on its keys.  dealManager.calls,      *)
(* dealManager.deals and dealManager.full record the calls of addIndexes   *)
(* and the arguments of the last, dealManager.before the two indexes as    *)
(* they were when it was called.                                           *)

\* if (deal.data.addonLicenseId): the identifier is neither null nor empty
Truthy(id) == id # <<>> /\ id[1] # ""

\* new Map()
EmptyMap == <<>>

\* Map.set
MapSet(map, key, value) ==
    [k \in DOMAIN map \cup {key} |-> IF k = key THEN value ELSE map[k]]

\* Map.get: the value of the key, none when the map has no such key
MapGet(map, key) == IF key \in DOMAIN map THEN <<map[key]>> ELSE <<>>

\* the index is never cleared
kept(map, full) == map

\* if (full) map.clear()
cleared(map, full) == IF full THEN EmptyMap ELSE map

RECURSIVE indexed(_, _, _)
\* the for loop of addIndexes, for the index of one identifier
indexed(map, deals, identifier) ==
    IF deals = <<>> THEN map
    ELSE LET deal == Head(deals)
             id == deal.data[identifier]
         IN indexed(IF Truthy(id) THEN MapSet(map, id[1], deal) ELSE map,
                    Tail(deals), identifier)

\* the DealManager after construction
NewDealManager ==
    [ dealsByAddonLicenseId |-> EmptyMap,
      dealsByTransactionId |-> EmptyMap,
      calls |-> 0, deals |-> <<>>, full |-> FALSE,
      before |-> [ dealsByAddonLicenseId |-> EmptyMap,
                   dealsByTransactionId |-> EmptyMap ] ]

getByAddonLicenseId(id) == MapGet(dealManager.dealsByAddonLicenseId, id)

getByTransactionId(id) == MapGet(dealManager.dealsByTransactionId, id)

\* a Deal entity: the id the CRM gave it and the identifiers of its data
DealEntity(id, addonLicenseId, transactionId) ==
    [ id |-> id,
      data |-> [addonLicenseId |-> addonLicenseId, transactionId |-> transactionId] ]

\* the deals the manager is given: two of the license L1, two of the
\* transaction AT-1, identifiers that are null and identifiers that are empty
ManagedDeals ==
    { DealEntity("1", <<"L1">>, <<>>),
      DealEntity("2", <<"L1">>, <<"AT-1">>),
      DealEntity("3", <<"">>, <<"AT-1">>),
      DealEntity("4", <<"L2">>, <<"">>) }

\* the lists of deals of at most n deals
Snapshots(n) == UNION { [1..m -> ManagedDeals] : m \in 0..n }

\* addIndexes(deals, full)
addIndexes ==
    /\ pc = "manager"
    /\ dealManager.calls < MaxIndexings
    /\ \E deals \in Snapshots(MaxSnapshot), full \in BOOLEAN :
          dealManager' =
              [ dealsByAddonLicenseId |->
                    indexed(cleared(dealManager.dealsByAddonLicenseId, full),
                            deals, "addonLicenseId"),
                dealsByTransactionId |->
                    indexed(cleared(dealManager.dealsByTransactionId, full),
                            deals, "transactionId"),
                calls |-> dealManager.calls + 1,
                deals |-> deals,
                full |-> full,
                before |-> [ dealsByAddonLicenseId |-> dealManager.dealsByAddonLicenseId,
                             dealsByTransactionId |-> dealManager.dealsByTransactionId ] ]
    /\ UNCHANGED <<data, pc, dealVars, eventVars, db, redactor>>

-----------------------------------------------------------------------------
(* makeRedactor.  redactor.redactions is the Map of the closure, keyed by  *)
(* the values redacted so far; redactor.at is the position of the call in  *)
(* progress ("idle" between calls), redactor.old its argument and          *)
(* redactor.redacted its local variable, <<>> while undefined.  The        *)
(* generator fn draws from redactor.range.                                 *)

\* chance.pickone(['EMEA', 'Americas', 'APAC', 'Unknown'])
Regions == {"EMEA", "Americas", "APAC", "Unknown"}

\* the values Redact.region is called with: the empty string, the regions
\* and one more
RegionInputs == {""} \cup Regions \cup {"Other"}

\* makeRedactor(fn, mustBeUnique), for an fn that draws from range
NewRedactor(range, mustBeUnique) ==
    [ range |-> range, mustBeUnique |-> mustBeUnique, redactions |-> EmptyMap,
      at |-> "idle", old |-> "", redacted |-> <<>> ]

\* the redactor is called: a falsy value and a value redacted before are
\* returned at once, another value enters the do/while loop
redactorCalled ==
    /\ pc = "redactor"
    /\ redactor.at = "idle"
    /\ \E old \in RegionInputs :
          redactor' =
              IF old = "" THEN [redactor EXCEPT !.old = old, !.redacted = <<old>>]
              ELSE LET redacted == MapGet(redactor.redactions, old)
                   IN [redactor EXCEPT !.old = old, !.redacted = redacted,
                                       !.at = IF redacted = <<>> THEN "do" ELSE "idle"]
    /\ UNCHANGED <<data, pc, dealVars, eventVars, db, dealManager>>

\* do { redacted = fn(old, chance); }, when the generator draws the value
draws(value) ==
    /\ pc = "redactor"
    /\ redactor.at = "do"
    /\ redactor' = [redactor EXCEPT !.redacted = <<value>>, !.at = "while"]
    /\ UNCHANGED <<data, pc, dealVars, eventVars, db, dealManager>>

\* do { redacted = fn(old, chance); }: the generator draws one of its values
generates == \E value \in redactor.range : draws(value)

\* while (mustBeUnique && redactions.has(redacted)): the draw is a key of
\* the map
drawnBefore(r) == r.mustBeUnique /\ r.redacted[1] \in DOMAIN r.redactions

\* the loop draws again
retries ==
    /\ pc = "redactor"
    /\ redactor.at = "while"
    /\ drawnBefore(redactor)
    /\ redactor' = [redactor EXCEPT !.at = "do"]
    /\ UNCHANGED <<data, pc, dealVars, eventVars, db, dealManager>>

\* the loop ends: redactions.set(old, redacted); return redacted
redactorReturns ==
    /\ pc = "redactor"
    /\ redactor.at = "while"
    /\ ~drawnBefore(redactor)
    /\ redactor' = [redactor EXCEPT
                        !.redactions = MapSet(@, redactor.old, redactor.redacted[1]),
                        !.at = "idle"]
    /\ UNCHANGED <<data, pc, dealVars, eventVars, db, dealManager>>

-----------------------------------------------------------------------------
(* The inputs of the model *)

Dates == 1..MaxDate

AcmeTech == <<"tech", "acme.com">>
AcmeBilling == <<"billing", "acme.com">>
GmailTech == <<"me", "GMAIL.com">>
PartnerTech == <<"sales", "partner.io">>
PartnerBilling == <<"billing", "partner.io">>
UnknownTech == <<"new", "acme.com">>

TechEmails == {AcmeTech, GmailTech, PartnerTech}

\* the contact directory: two emails of acme.com, one partner contact
Directory ==
    (AcmeTech :> [hs_object_id |-> "c1"]) @@ (AcmeBilling :> [hs_object_id |-> "c2"])
    @@ (PartnerBilling :> [hs_object_id |-> "c3"])

License(id, type, status, date, tech) ==
    [ addonLicenseId |-> id, licenseType |-> type, status |-> status,
      maintenanceStartDate |-> date, techEmail |-> tech,
      billingEmail |-> NoEmail, partnerEmail |-> NoEmail,
      hosting |-> "Server", addonKey |-> "com.acme.app", country |-> "US",
      tier |-> 10 ]

Transaction(id, licenseId, type, date, amount) ==
    [ transactionId |-> id, addonLicenseId |-> licenseId, saleType |-> type,
      saleDate |-> date, vendorAmount |-> amount,
      hosting |-> "Server", addonKey |-> "com.acme.app", country |-> "US",
      tier |-> 10 ]

\* a deal as an earlier run left it for the license, then moved to a stage,
\* a close date and an amount
Deal(id, license, stage, closedate, amount, contactIds) ==
    [ id |-> id,
      properties |-> Merge(dealPropertiesForLicense(license, <<>>),
                           [ dealstage |-> stage, closedate |-> closedate,
                             amount |-> amount ]),
      contactIds |-> contactIds ]

DealAmounts == {"0", "0.00", "100.00"}

Member(license, transactions) == [license |-> license, transactions |-> transactions]

Input(allMatches, initialDeals) ==
    [ allMatches |-> allMatches, initialDeals |-> initialDeals,
      contactsByEmail |-> Directory,
      providerDomains |-> {"gmail.com"}, partnerDomains |-> {"partner.io"} ]

\* type and status of a license; the status of a paid license is never read
Kinds ==
    { <<"EVALUATION", "active">>, <<"EVALUATION", "inactive">>,
      <<"COMMERCIAL", "active">> }

\* One group of one license, a deal for it or none: every type, status and
\* technical contact; no transaction, a sale, a sale and its refund, a refund.
InitSingle ==
    \E type \in {"EVALUATION", "OPEN_SOURCE", "COMMERCIAL"},
       status \in {"active", "inactive"}, tech \in TechEmails :
      LET license == License("L1", type, status, MaxDate, tech) IN
      \E transactions \in
            {<<>>, <<Transaction("AT-2", "L1", "Refund", MaxDate, 10000)>>}
            \cup {<<Transaction("AT-1", "L1", "New", d, a)>> :
                    d \in {1, MaxDate}, a \in Amounts}
            \cup {<<Transaction("AT-1", "L1", "New", 1, a),
                    Transaction("AT-2", "L1", "Refund", MaxDate, a)>> : a \in Amounts},
         deals \in
            {<<>>}
            \cup {<<Deal("1", license, stage, d, a, c)>> :
                    stage \in DealStages, d \in {1, MaxDate}, a \in DealAmounts,
                    c \in {<<>>, <<"c1", "c9">>}} :
         /\ data = Input(<<<<Member(license, transactions)>>>>, deals)
         /\ now = MaxDate

\* One group of two licenses of the same customer, in any date order, with
\* sales on either, and deals for either.
InitPair ==
    \E k1 \in Kinds, k2 \in Kinds, d1 \in Dates, d2 \in Dates :
      LET l1 == License("L1", k1[1], k1[2], d1, AcmeTech)
          l2 == License("L2", k2[1], k2[2], d2, AcmeTech)
      IN \E x1 \in {<<>>} \cup {<<Transaction("AT-1", "L1", "New", d, 9950)>> : d \in Dates},
            x2 \in {<<>>, <<Transaction("AT-2", "L2", "New", 1, 0)>>,
                    <<Transaction("AT-3", "L2", "Refund", 1, 10000),
                      Transaction("AT-2", "L2", "New", MaxDate, 10000)>>}
                   \cup {<<Transaction("AT-2", "L2", "New", d, 10000)>> : d \in Dates},
            deals1 \in {<<>>}
                      \cup {<<Deal("1", l1, EVAL, d, "0", <<>>)>> : d \in Dates}
                      \cup {<<Deal("1", l1, stage, d1, "0", <<>>)>> :
                              stage \in {CLOSED_WON, CLOSED_LOST}},
            deals2 \in {<<>>} \cup {<<Deal("2", l2, stage, d2, "0", <<>>)>> :
                                       stage \in {EVAL, CLOSED_WON}} :
            /\ data = Input(<<<<Member(l1, x1), Member(l2, x2)>>>>, deals1 \o deals2)
            /\ now = MaxDate

\* One group of two licenses with technical contacts of excluded domains
InitDomains ==
    \E k1 \in Kinds, k2 \in Kinds,
       techs \in {<<GmailTech, AcmeTech>>, <<GmailTech, PartnerTech>>,
                  <<GmailTech, GmailTech>>, <<AcmeTech, PartnerTech>>,
                  <<PartnerTech, PartnerTech>>, <<PartnerTech, GmailTech>>},
       sold \in BOOLEAN, known \in BOOLEAN :
      LET l1 == License("L1", k1[1], k1[2], 1, techs[1])
          l2 == License("L2", k2[1], k2[2], MaxDate, techs[2])
      IN /\ data = Input(
                <<<<Member(l1, <<>>),
                    Member(l2, IF sold
                               THEN <<Transaction("AT-2", "L2", "New", MaxDate, 10000)>>
                               ELSE <<>>)>>>>,
                IF known THEN <<Deal("1", l1, EVAL, 1, "0", <<>>)>> ELSE <<>>)
         /\ now = MaxDate

\* Two groups of one license each; the clock is such that a license that
\* started on day 1 is older than ninety days.
InitTwoGroups ==
    \E k1 \in Kinds, k2 \in Kinds, d1 \in {1, MaxDate}, d2 \in {1, MaxDate},
       t1 \in {AcmeTech, GmailTech}, t2 \in {AcmeTech, GmailTech},
       sold1 \in BOOLEAN, sold2 \in BOOLEAN :
      LET l1 == License("L1", k1[1], k1[2], d1, t1)
          l2 == License("L2", k2[1], k2[2], d2, t2)
          x1 == IF sold1 THEN <<Transaction("AT-1", "L1", "New", MaxDate, 10000)>> ELSE <<>>
          x2 == IF sold2 THEN <<Transaction("AT-2", "L2", "New", MaxDate, 10000)>> ELSE <<>>
      IN \E deals1 \in {<<>>, <<Deal("1", l1, EVAL, d1, "0", <<>>)>>,
                        <<Deal("1", l1, CLOSED_WON, d1, "100.00", <<>>)>>},
            deals2 \in {<<>>, <<Deal("2", l2, EVAL, d2, "0", <<>>)>>,
                        <<Deal("2", l2, CLOSED_WON, d2, "100.00", <<>>)>>} :
            /\ data = Input(<<<<Member(l1, x1)>>, <<Member(l2, x2)>>>>, deals1 \o deals2)
            /\ now = NINETY_DAYS + 2

\* One group of an eval and a later purchase.  The purchase has technical,
\* billing and partner contacts, some of them not in the directory and some
\* the same contact; the deal of the eval, when there is one, stores a list
\* of contact ids.
InitContacts ==
    \E tech \in {AcmeTech, UnknownTech},
       billing \in {NoEmail, AcmeTech, AcmeBilling, UnknownTech},
       partner \in {NoEmail, PartnerBilling},
       stored \in {<<>>, <<"c1">>, <<"c9">>, <<"c2", "c9">>, <<"c3", "c2", "c1">>},
       stage \in {EVAL, CLOSED_WON},
       known \in BOOLEAN :
      LET l1 == License("L1", "EVALUATION", "active", 1, AcmeTech)
          l2 == [License("L2", "COMMERCIAL", "active", MaxDate, tech)
                    EXCEPT !.billingEmail = billing, !.partnerEmail = partner]
      IN /\ data = Input(
                <<<<Member(l1, <<>>),
                    Member(l2, <<Transaction("AT-2", "L2", "New", MaxDate, 10000)>>)>>>>,
                IF known THEN <<Deal("1", l1, stage, 1, "0", stored)>> ELSE <<>>)
         /\ now = MaxDate

\* the deal snapshots of the event inputs: at most one deal known by a
\* license, and at most one known by a transaction only
EventDeals ==
    { d1 \o d2 :
        d1 \in {<<>>} \cup
               { << [ id |-> "1",
                      properties |-> Merge(
                          dealCreationProperties(
                              License(licenseId, "EVALUATION", "active", 1, AcmeTech), stage),
                          [transactionid |-> transactionId]),
                      contactIds |-> <<>> ] >> :
                   licenseId \in {"L1", "L2"}, transactionId \in {"", "AT-1"},
                   stage \in DealStages },
        d2 \in {<<>>} \cup
               { << [ id |-> "2",
                      properties |-> Merge(
                          dealCreationProperties(
                              Transaction(transactionId, "", "New", 1, 10000), stage),
                          [addonlicenseid |-> ""]),
                      contactIds |-> <<>> ] >> :
                   transactionId \in {"AT-1", "AT-2"}, stage \in DealStages } }

\* the events of the event inputs, over the licenses L1 (an eval of day 1)
\* and L2 (a purchase of day MaxDate) and the transactions AT-1 to AT-3
EventUniverse ==
    LET l1 == License("L1", "EVALUATION", "active", 1, AcmeTech)
        l2 == License("L2", "COMMERCIAL", "active", MaxDate, AcmeTech)
        t1 == Transaction("AT-1", "L2", "New", 1, 10000)
        t2 == Transaction("AT-2", "L2", "Renewal", MaxDate, 10000)
        t3 == Transaction("AT-3", "L2", "Upgrade", MaxDate, 9950)
    IN { [type |-> "eval", groups |-> <<>>, licenses |-> ls] :
            ls \in {<<l1>>, <<l2, l1>>} }
       \cup { [type |-> "purchase", groups |-> <<>>, licenses |-> ls, transaction |-> tx] :
                ls \in {<<l2>>, <<l1, l2>>}, tx \in {<<>>, <<t1>>, <<t2>>} }
       \cup { [type |-> "renewal", groups |-> <<>>, transaction |-> t2],
              [type |-> "upgrade", groups |-> <<>>, transaction |-> t3] }
       \cup { [type |-> "refund", groups |-> <<>>, refundedTxs |-> txs] :
                txs \in {<<t1>>, <<t3>>, <<t1, t2>>, <<t1, t1>>} }

\* Two groups, ninety days after the last date and ninety-one after the
\* first: a group of two licenses of either date, with a deal for the first
\* or none, and a group of an eval of either date that has a sale
InitAged ==
    \E k1 \in Kinds, k2 \in Kinds, d1 \in {1, MaxDate}, d2 \in {1, MaxDate},
       d3 \in {1, MaxDate} :
      LET l1 == License("L1", k1[1], k1[2], d1, AcmeTech)
          l2 == License("L2", k2[1], k2[2], d2, AcmeTech)
          l3 == License("L3", "EVALUATION", "active", d3, AcmeTech)
          x3 == <<Transaction("AT-3", "L3", "New", d3, 10000)>>
      IN \E deals \in {<<>>, <<Deal("1", l1, EVAL, 1, "0", <<>>)>>} :
            /\ data = Input(<< <<Member(l1, <<>>), Member(l2, <<>>)>>,
                               <<Member(l3, x3)>> >>, deals)
            /\ now = NINETY_DAYS + 2

\* generateDeals is about to run on bounded inputs
InitDeals ==
    /\ \/ InitSingle \/ InitPair \/ InitDomains \/ InitTwoGroups \/ InitContacts
       \/ InitAged
    /\ pc = "start"
    /\ run = 1
    /\ matches = <<>>
    /\ gi = 1
    /\ dealCreateActions = <<>>
    /\ dealUpdateActions = <<>>
    /\ ignoredLicenseSets = <<>>
    /\ dealsToCreate = <<>>
    /\ dealsToUpdate = <<>>
    /\ associationsToCreate = <<>>
    /\ associationsToRemove = <<>>
    /\ ui = 1
    /\ events = <<>>
    /\ ei = 1
    /\ actions = <<>>
    /\ previous = <<>>
    /\ db = NewDatabase("a", "constructed")
    /\ dealManager = NewDealManager
    /\ redactor = NewRedactor(Regions, TRUE)

\* ActionGenerator.generateFrom is about to run on bounded events
InitEvents ==
    /\ \E deals \in EventDeals : data = Input(<<>>, deals)
    /\ \E n \in 1..MaxEvents : events \in [1..n -> EventUniverse]
    /\ ei = 1
    /\ actions = <<>>
    /\ pc = "events"
    /\ now = MaxDate
    /\ run = 1
    /\ matches = <<>>
    /\ gi = 1
    /\ dealCreateActions = <<>>
    /\ dealUpdateActions = <<>>
    /\ ignoredLicenseSets = <<>>
    /\ dealsToCreate = <<>>
    /\ dealsToUpdate = <<>>
    /\ associationsToCreate = <<>>
    /\ associationsToRemove = <<>>
    /\ ui = 1
    /\ previous = <<>>
    /\ db = NewDatabase("a", "constructed")
    /\ dealManager = NewDealManager
    /\ redactor = NewRedactor(Regions, TRUE)

\* generateDeals is about to run, at any moment, on two groups: a license
\* of any kind and date with or without a sale and a deal, and an active
\* eval of the day after the last date
InitReplay ==
    /\ \E k \in Kinds, d \in Dates, sold \in BOOLEAN, tech \in {AcmeTech, GmailTech} :
          LET l1 == License("L1", k[1], k[2], d, tech)
              l2 == License("L2", "EVALUATION", "active", MaxDate + 1, AcmeTech)
              x1 == IF sold THEN <<Transaction("AT-1", "L1", "New", d, 10000)>> ELSE <<>>
          IN \E deals \in {<<>>, <<Deal("1", l1, CLOSED_WON, d, "100.00", <<>>)>>}
                           \cup {<<Deal("1", l1, EVAL, c, "0", <<>>)>> : c \in Dates} :
                data = Input(<<<<Member(l1, x1)>>, <<Member(l2, <<>>)>>>>, deals)
    /\ now \in Clocks
    /\ pc = "start"
    /\ run = 1
    /\ matches = <<>>
    /\ gi = 1
    /\ dealCreateActions = <<>>
    /\ dealUpdateActions = <<>>
    /\ ignoredLicenseSets = <<>>
    /\ dealsToCreate = <<>>
    /\ dealsToUpdate = <<>>
    /\ associationsToCreate = <<>>
    /\ associationsToRemove = <<>>
    /\ ui = 1
    /\ events = <<>>
    /\ ei = 1
    /\ actions = <<>>
    /\ previous = <<>>
    /\ db = NewDatabase("a", "constructed")
    /\ dealManager = NewDealManager
    /\ redactor = NewRedactor(Regions, TRUE)

\* downloadAllData is called on a new Database
InitDownload ==
    /\ \E remote \in Remotes : db = NewDatabase(remote, "batch1")
    /\ dealManager = NewDealManager
    /\ redactor = NewRedactor(Regions, TRUE)
    /\ data = Input(<<>>, <<>>)
    /\ now = MaxDate
    /\ pc = "download"
    /\ run = 1
    /\ matches = <<>>
    /\ gi = 1
    /\ dealCreateActions = <<>>
    /\ dealUpdateActions = <<>>
    /\ ignoredLicenseSets = <<>>
    /\ dealsToCreate = <<>>
    /\ dealsToUpdate = <<>>
    /\ associationsToCreate = <<>>
    /\ associationsToRemove = <<>>
    /\ ui = 1
    /\ events = <<>>
    /\ ei = 1
    /\ actions = <<>>
    /\ previous = <<>>

NextDownload ==
    \/ downloadSettles
    \/ awaitDownloads
    \/ entitiesDownloadSettles
    \/ assignSnapshot
    \/ downloadAllDataRejects

\* Database.downloadAllData
SpecDownload == InitDownload /\ [][NextDownload]_vars

NextDeals ==
    \/ Start
    \/ generateActionsForMatchedGroup
    \/ mapCreateActions
    \/ processUpdateAction
    \/ return
    \/ pipeOutputToInput

NextEvents ==
    \/ actionsForEvent
    \/ generateFromReturns

\* a DealManager has been constructed
InitManager ==
    /\ dealManager = NewDealManager
    /\ redactor = NewRedactor(Regions, TRUE)
    /\ db = NewDatabase("a", "constructed")
    /\ data = Input(<<>>, <<>>)
    /\ now = MaxDate
    /\ pc = "manager"
    /\ run = 1
    /\ matches = <<>>
    /\ gi = 1
    /\ dealCreateActions = <<>>
    /\ dealUpdateActions = <<>>
    /\ ignoredLicenseSets = <<>>
    /\ dealsToCreate = <<>>
    /\ dealsToUpdate = <<>>
    /\ associationsToCreate = <<>>
    /\ associationsToRemove = <<>>
    /\ ui = 1
    /\ events = <<>>
    /\ ei = 1
    /\ actions = <<>>
    /\ previous = <<>>

NextManager == addIndexes

\* DealManager.addIndexes, called again and again
SpecManager == InitManager /\ [][NextManager]_vars

\* Redact.region has been made
InitRedactor ==
    /\ redactor = NewRedactor(Regions, TRUE)
    /\ dealManager = NewDealManager
    /\ db = NewDatabase("a", "constructed")
    /\ data = Input(<<>>, <<>>)
    /\ now = MaxDate
    /\ pc = "redactor"
    /\ run = 1
    /\ matches = <<>>
    /\ gi = 1
    /\ dealCreateActions = <<>>
    /\ dealUpdateActions = <<>>
    /\ ignoredLicenseSets = <<>>
    /\ dealsToCreate = <<>>
    /\ dealsToUpdate = <<>>
    /\ associationsToCreate = <<>>
    /\ associationsToRemove = <<>>
    /\ ui = 1
    /\ events = <<>>
    /\ ei = 1
    /\ actions = <<>>
    /\ previous = <<>>

NextRedactor ==
    \/ redactorCalled
    \/ generates
    \/ retries
    \/ redactorReturns

\* Redact.region, called again and again: a call in progress goes on, and a
\* value that the generator can draw is drawn in the end when the loop
\* draws without end
SpecRedactor ==
    /\ InitRedactor
    /\ [][NextRedactor]_vars
    /\ WF_vars(retries)
    /\ WF_vars(redactorReturns)
    /\ \A value \in Regions : SF_vars(draws(value))

\* generateDeals and the harness around it
Spec == InitDeals /\ [][NextDeals]_vars

\* generateDeals, called again on the same arguments
NextReplay ==
    \/ Start
    \/ generateActionsForMatchedGroup
    \/ mapCreateActions
    \/ processUpdateAction
    \/ return
    \/ replay

SpecReplay == InitReplay /\ [][NextReplay]_vars

\* ActionGenerator.generateFrom
SpecEvents == InitEvents /\ [][NextEvents]_vars

\* both
SpecEngine == (InitDeals \/ InitEvents) /\ [][NextDeals \/ NextEvents]_vars

-----------------------------------------------------------------------------
(* Vocabulary of the properties *)

\* the group of index k of matches has been classified
Classified(k) ==
    \/ pc = "classify" /\ k < gi
    \/ pc \in {"updates", "done"}

LicenseIds(group) == {group[i].license.addonLicenseId : i \in 1..Len(group)}

\* the deals of the snapshot that a license of the group references
DealsOfGroup(group) ==
    {d \in Range(data.initialDeals) : d.properties.addonlicenseid \in LicenseIds(group)}

DealIdsOfGroup(group) == {d.id : d \in DealsOfGroup(group)}

\* the create and update actions of a group; license identifiers are not
\* shared between groups, so a deal is referenced by one group at most
CreatesOf(group) ==
    {i \in 1..Len(dealCreateActions) :
        dealCreateActions[i].license.addonLicenseId \in LicenseIds(group)}

UpdatesOf(group) ==
    {i \in 1..Len(dealUpdateActions) : dealUpdateActions[i].id \in DealIdsOfGroup(group)}

\* every technical-contact domain of the group, lowercased, is excluded
Excluded(group) ==
    \A i \in 1..Len(group) :
        ToLowerCase(group[i].license.techEmail[2])
            \in data.providerDomains \cup data.partnerDomains

Free(license) == license.licenseType \in {"EVALUATION", "OPEN_SOURCE"}

AllFree(group) == \A i \in 1..Len(group) : Free(group[i].license)

\* the licenses of the group with the earliest and with the latest start date
EarliestLicenses(group) ==
    {group[i].license : i \in {i \in 1..Len(group) : \A j \in 1..Len(group) :
        group[i].license.maintenanceStartDate <= group[j].license.maintenanceStartDate}}

LatestLicenses(group) ==
    {group[i].license : i \in {i \in 1..Len(group) : \A j \in 1..Len(group) :
        group[i].license.maintenanceStartDate >= group[j].license.maintenanceStartDate}}

TransactionsOfGroup(group) ==
    UNION {Range(group[i].transactions) : i \in 1..Len(group)}

\* the sales of the group with the earliest sale date
EarliestSales(group) ==
    LET sales == {tx \in TransactionsOfGroup(group) : tx.saleType # "Refund"}
    IN {tx \in sales : \A other \in sales : tx.saleDate <= other.saleDate}

\* the kind of a reason: the reason itself, or bad-domains: for a reason
\* that goes on with a list of domains
Tag(reason) ==
    IF reason \in {"inactive-evals", "eval-up-to-date"} THEN reason ELSE "bad-domains:"

\* the entries of the ignored-group list for the group
IgnoredWith(group, tag) ==
    {i \in 1..Len(ignoredLicenseSets) :
        /\ Tag(ignoredLicenseSets[i].reason) = tag
        /\ Range(ignoredLicenseSets[i].licenses) = Range(LicensesOf(group))}

\* the number an amount string denotes, in cents
AmountValue(amount) ==
    CASE amount \in {"0", "0.00"} -> 0
      [] amount \in {"99.5", "99.50"} -> 9950
      [] amount \in {"100", "100.00"} -> 10000

\* the update action of index i has been through the update loop
Processed(i) == pc = "done" \/ (pc = "updates" /\ i < ui)

\* the stored deal of an id
StoredDeal(id) == CHOOSE d \in Range(data.initialDeals) : d.id = id

HasDeal(id) == \E d \in Range(data.initialDeals) : d.id = id

-----------------------------------------------------------------------------
(* C1: idempotence.  When generateDeals has run on the deal snapshot that  *)
(* the previous run of the same groups and contacts produced, it returns   *)
(* no create request and no update request.                                *)
C1_SecondRunIsEmpty ==
    (pc = "done" /\ run >= 2) => (dealsToCreate = <<>> /\ dealsToUpdate = <<>>)

(* C2: no-op suppression.  Every element of dealsToUpdate carries at least *)
(* one property, every property it carries differs from the value stored   *)
(* on the deal of that id, and the elements are exactly the candidates     *)
(* with some merged property different from the stored value.              *)
C2_NoOpSuppression ==
    pc \in {"updates", "done"} =>
      /\ \A i \in 1..Len(dealsToUpdate) :
            LET update == dealsToUpdate[i] IN
            /\ HasDeal(update.id)
            /\ DOMAIN update.properties # {}
            /\ \A key \in DOMAIN update.properties :
                  update.properties[key] # StoredDeal(update.id).properties[key]
      /\ Len(dealsToUpdate) = Cardinality(
            {j \in 1..(ui - 1) :
                LET merged == mergedProperties(dealUpdateActions[j])
                    stored == StoredDeal(dealUpdateActions[j].id).properties
                IN \E key \in DOMAIN merged : merged[key] # stored[key]})

\* a run whose only update candidate equals the stored deal and is dropped
C2_Witness ==
    /\ pc = "done"
    /\ Len(dealUpdateActions) = 1
    /\ DOMAIN mergedProperties(dealUpdateActions[1]) # {}
    /\ dealsToUpdate = <<>>

(* C3: domain exclusion.  A group whose technical-contact domains are all  *)
(* provider or partner domains has no create action, no update action, no  *)
(* create request, no update request and no association entry, also when   *)
(* a deal of the snapshot references one of its licenses.                  *)
C3_DomainExclusion ==
    \A k \in 1..Len(data.allMatches) :
      LET group == data.allMatches[k] IN
      Excluded(group) =>
        /\ CreatesOf(group) = {}
        /\ UpdatesOf(group) = {}
        /\ \A i \in 1..Len(dealsToCreate) :
              dealsToCreate[i].properties.addonlicenseid \notin LicenseIds(group)
        /\ \A i \in 1..Len(dealsToUpdate) :
              dealsToUpdate[i].id \notin DealIdsOfGroup(group)
        /\ \A i \in 1..Len(associationsToCreate) :
              associationsToCreate[i].dealId \notin DealIdsOfGroup(group)
        /\ \A i \in 1..Len(associationsToRemove) :
              associationsToRemove[i].dealId \notin DealIdsOfGroup(group)

\* an excluded group with a deal for one of its licenses has been classified
C3_Witness ==
    /\ pc = "done"
    /\ \E k \in 1..Len(matches) :
          /\ Excluded(matches[k])
          /\ DealsOfGroup(matches[k]) # {}
          /\ IgnoredWith(matches[k], "bad-domains:") # {}

\* the value of a property of a partial bag, "absent" when it has none
Property(properties, key) ==
    IF key \in DOMAIN properties THEN properties[key] ELSE "absent"

\* the vendor amounts the price rule can give for the group
PricesOf(group) ==
    IF EarliestSales(group) = {} THEN {0}
    ELSE {tx.vendorAmount : tx \in EarliestSales(group)}

\* the stage a property bag carries, if any, is a closed one
CarriesClosedStageOnly(properties) ==
    "dealstage" \in DOMAIN properties =>
        properties.dealstage \in {CLOSED_WON, CLOSED_LOST}

\* the update actions among the actions of generateFrom
UpdateActions == {i \in 1..Len(actions) : actions[i].type = "update"}

(* C4: stage monotonicity.  No update action of the classifier, no update  *)
(* request of generateDeals and no update action of ActionGenerator        *)
(* carries the stage EVAL, on a closed deal or on any other: the stage an  *)
(* update carries, if it carries one, is CLOSED_WON or CLOSED_LOST.        *)
C4_StageMonotonicity ==
    /\ \A i \in 1..Len(dealUpdateActions) :
          CarriesClosedStageOnly(dealUpdateActions[i].properties)
    /\ \A i \in 1..Len(dealsToUpdate) :
          /\ CarriesClosedStageOnly(dealsToUpdate[i].properties)
          /\ ( /\ HasDeal(dealsToUpdate[i].id)
               /\ StoredDeal(dealsToUpdate[i].id).properties.dealstage
                     \in {CLOSED_WON, CLOSED_LOST} )
             => Property(dealsToUpdate[i].properties, "dealstage") # EVAL
    /\ \A i \in UpdateActions :
          /\ CarriesClosedStageOnly(actions[i].properties)
          /\ actions[i].deal.properties.dealstage \in {CLOSED_WON, CLOSED_LOST}
             => Property(actions[i].properties, "dealstage") # EVAL

\* generateDeals has returned an update request for a closed deal that
\* carries a stage
C4_Witness ==
    /\ pc = "done"
    /\ \E i \in 1..Len(dealsToUpdate) :
          /\ StoredDeal(dealsToUpdate[i].id).properties.dealstage = CLOSED_LOST
          /\ "dealstage" \in DOMAIN dealsToUpdate[i].properties

\* the deals of the snapshot that carry the id of a refunded transaction
RefundedDeals(event) ==
    {d \in Range(data.initialDeals) :
        \E i \in 1..Len(event.refundedTxs) :
            d.properties.transactionid = event.refundedTxs[i].transactionId}

\* no two deals of the snapshot carry the id of the same refunded transaction
RefundIsUnambiguous(event) ==
    \A d1, d2 \in RefundedDeals(event) :
        d1.properties.transactionid = d2.properties.transactionid => d1 = d2

\* the actions that the step appends to actions
Appended == SubSeq(actions', Len(actions) + 1, Len(actions'))

(* C5: refund closes, never reopens.  When generateFrom handles a refund   *)
(* event, every action it appends is an update of a deal that a refunded   *)
(* transaction references, setting dealstage to CLOSED_LOST and nothing    *)
(* else; a referenced deal at CLOSED_LOST gets no action and every other   *)
(* referenced deal exactly one, however many refunded transactions         *)
(* reference it.                                                           *)
C5_RefundCloses ==
    [][ ( /\ pc = "events"
          /\ ei <= Len(events)
          /\ ei' = ei + 1
          /\ events[ei].type = "refund"
          /\ RefundIsUnambiguous(events[ei]) )
        => /\ \A i \in 1..Len(Appended) :
                 /\ Appended[i].type = "update"
                 /\ Appended[i].deal \in RefundedDeals(events[ei])
                 /\ Appended[i].properties = [dealstage |-> CLOSED_LOST]
           /\ \A d \in RefundedDeals(events[ei]) :
                 Cardinality({i \in 1..Len(Appended) : Appended[i].deal = d})
                     = IF d.properties.dealstage = CLOSED_LOST THEN 0 ELSE 1
      ]_vars

\* a refund of two transactions, one of a deal at CLOSED_LOST and one of a
\* deal at another stage, has given one action
C5_Witness ==
    /\ pc = "generated"
    /\ Len(events) = 1
    /\ events[1].type = "refund"
    /\ RefundIsUnambiguous(events[1])
    /\ \E d1, d2 \in RefundedDeals(events[1]) :
          /\ d1.properties.dealstage = CLOSED_LOST
          /\ d2.properties.dealstage # CLOSED_LOST
    /\ Len(actions) = 1

(* C6: refunds in the classifier.  A group of one COMMERCIAL license with  *)
(* a sale and its refund, whose deal is at CLOSED_WON, gets exactly one    *)
(* update action, which sets the stage to CLOSED_LOST and no amount.       *)
C6_RefundClosesWonDeal ==
    \A k \in 1..Len(matches) :
      LET group == matches[k] IN
      ( /\ Classified(k)
        /\ Len(group) = 1
        /\ ~Excluded(group)
        /\ group[1].license.licenseType = "COMMERCIAL"
        /\ \E tx \in TransactionsOfGroup(group) : tx.saleType = "Refund"
        /\ \E tx \in TransactionsOfGroup(group) : tx.saleType # "Refund"
        /\ DealsOfGroup(group) # {}
        /\ \A d \in DealsOfGroup(group) : d.properties.dealstage = CLOSED_WON )
      => /\ Cardinality(UpdatesOf(group)) = 1
         /\ \A i \in UpdatesOf(group) :
               /\ Property(dealUpdateActions[i].properties, "dealstage") = CLOSED_LOST
               /\ "amount" \notin DOMAIN dealUpdateActions[i].properties

(* C7: eval creation.  A classified group that is not excluded, has only   *)
(* free licenses, no transaction and no deal gets exactly one create       *)
(* action, of stage EVAL and amount "0", built from a license of the       *)
(* latest start date, when that license is active; when it is inactive it  *)
(* gets no action and one ignored entry tagged inactive-evals.             *)
C7_EvalCreation ==
    \A k \in 1..Len(matches) :
      LET group == matches[k]
          statuses == {l.status : l \in LatestLicenses(group)}
      IN
      ( /\ Classified(k)
        /\ ~Excluded(group)
        /\ AllFree(group)
        /\ TransactionsOfGroup(group) = {}
        /\ DealsOfGroup(group) = {} )
      => /\ statuses = {"active"} =>
               /\ Cardinality(CreatesOf(group)) = 1
               /\ \A i \in CreatesOf(group) :
                     /\ dealCreateActions[i].dealstage = EVAL
                     /\ dealCreateActions[i].amount = "0"
                     /\ dealCreateActions[i].license \in LatestLicenses(group)
                     /\ pc \in {"updates", "done"} =>
                           /\ dealsToCreate[i].properties.dealstage = EVAL
                           /\ dealsToCreate[i].properties.amount = "0"
                           /\ dealsToCreate[i].properties.addonlicenseid
                                 = dealCreateActions[i].license.addonLicenseId
               /\ IgnoredWith(group, "inactive-evals") = {}
         /\ statuses = {"inactive"} =>
               /\ CreatesOf(group) = {}
               /\ Cardinality(IgnoredWith(group, "inactive-evals")) = 1

\* an active eval later than an inactive one got its deal, and the run ended
C7_Witness ==
    /\ pc = "done"
    /\ \E k \in 1..Len(matches) :
          /\ Len(matches[k]) = 2
          /\ ~Excluded(matches[k])
          /\ AllFree(matches[k])
          /\ TransactionsOfGroup(matches[k]) = {}
          /\ DealsOfGroup(matches[k]) = {}
          /\ matches[k][1].license.maintenanceStartDate
                > matches[k][2].license.maintenanceStartDate
          /\ matches[k][1].license.status = "active"
          /\ matches[k][2].license.status = "inactive"
          /\ Cardinality(CreatesOf(matches[k])) = 1
          /\ Len(dealsToCreate) = 1

(* C8: eval-to-paid conversion.  A classified group that is not excluded,  *)
(* whose earliest licenses are free and that holds a paid license: if a    *)
(* deal references one of its licenses, in whatever stage, it gets exactly *)
(* one update action, on such a deal, of stage CLOSED_WON and with the     *)
(* computed amount ("100.00" for a first sale of 100.00); otherwise it     *)
(* gets exactly one create action of stage CLOSED_WON.                     *)
C8_Conversion ==
    \A k \in 1..Len(matches) :
      LET group == matches[k] IN
      ( /\ Classified(k)
        /\ ~Excluded(group)
        /\ \A l \in EarliestLicenses(group) : Free(l)
        /\ ~AllFree(group) )
      => IF DealsOfGroup(group) # {}
         THEN /\ CreatesOf(group) = {}
              /\ Cardinality(UpdatesOf(group)) = 1
              /\ \A i \in UpdatesOf(group) :
                    LET merged == mergedProperties(dealUpdateActions[i]) IN
                    /\ Property(dealUpdateActions[i].properties, "dealstage") = CLOSED_WON
                    /\ AmountValue(merged.amount) \in PricesOf(group)
                    /\ PricesOf(group) = {10000} => merged.amount = "100.00"
         ELSE /\ UpdatesOf(group) = {}
              /\ Cardinality(CreatesOf(group)) = 1
              /\ \A i \in CreatesOf(group) : dealCreateActions[i].dealstage = CLOSED_WON

\* scenario B: an eval with its EVAL deal, then a purchase of 100.00
C8_Witness ==
    /\ pc = "done"
    /\ \E k \in 1..Len(matches) :
          LET group == matches[k] IN
          /\ ~Excluded(group)
          /\ \A l \in EarliestLicenses(group) : Free(l)
          /\ ~AllFree(group)
          /\ PricesOf(group) = {10000}
          /\ \E d \in DealsOfGroup(group) : d.properties.dealstage = EVAL
          /\ \E i \in 1..Len(dealsToUpdate) :
                /\ dealsToUpdate[i].id \in DealIdsOfGroup(group)
                /\ Property(dealsToUpdate[i].properties, "dealstage") = CLOSED_WON
                /\ Property(dealsToUpdate[i].properties, "amount") = "100.00"

(* C9: a group that started paid.  A classified group that is not excluded *)
(* and whose earliest licenses are paid gets one update action to          *)
(* CLOSED_WON when its deals are in stage EVAL, no create and no update    *)
(* action when its deals are in other stages, and exactly one create       *)
(* action of stage CLOSED_WON when it has no deal.                         *)
C9_StartedPaid ==
    \A k \in 1..Len(matches) :
      LET group == matches[k]
          stages == {d.properties.dealstage : d \in DealsOfGroup(group)}
      IN
      ( /\ Classified(k)
        /\ ~Excluded(group)
        /\ \A l \in EarliestLicenses(group) : ~Free(l) )
      => /\ stages = {EVAL} =>
               /\ CreatesOf(group) = {}
               /\ Cardinality(UpdatesOf(group)) = 1
               /\ \A i \in UpdatesOf(group) :
                     Property(dealUpdateActions[i].properties, "dealstage") = CLOSED_WON
         /\ (stages # {} /\ EVAL \notin stages) =>
               /\ CreatesOf(group) = {}
               /\ UpdatesOf(group) = {}
         /\ stages = {} =>
               /\ UpdatesOf(group) = {}
               /\ Cardinality(CreatesOf(group)) = 1
               /\ \A i \in CreatesOf(group) : dealCreateActions[i].dealstage = CLOSED_WON

\* a group that started paid and whose deal is closed is left alone
C9_Witness ==
    /\ pc = "done"
    /\ \E k \in 1..Len(matches) :
          LET group == matches[k] IN
          /\ ~Excluded(group)
          /\ \A l \in EarliestLicenses(group) : ~Free(l)
          /\ \E d \in DealsOfGroup(group) : d.properties.dealstage = CLOSED_LOST
          /\ \A d \in DealsOfGroup(group) : d.properties.dealstage # EVAL
          /\ TransactionsOfGroup(group) # {}
          /\ dealCreateActions = <<>>
          /\ dealUpdateActions = <<>>

(* C10: refresh of an eval deal.  A classified group that is not excluded, *)
(* has only free licenses, no transaction, one deal and an active latest   *)
(* license gets an update action exactly when the start date of the latest *)
(* license differs from the deal's closedate or its addonLicenseId from    *)
(* the deal's addonlicenseid; the update carries addonlicenseid and        *)
(* closedate only.  Otherwise it gets no action and one ignored entry      *)
(* tagged eval-up-to-date.                                                 *)
C10_EvalRefresh ==
    \A k \in 1..Len(matches) :
      LET group == matches[k] IN
      ( /\ Classified(k)
        /\ ~Excluded(group)
        /\ AllFree(group)
        /\ TransactionsOfGroup(group) = {}
        /\ Cardinality(DealsOfGroup(group)) = 1
        /\ Cardinality(LatestLicenses(group)) = 1
        /\ \A l \in LatestLicenses(group) : l.status = "active" )
      => LET latest == CHOOSE l \in LatestLicenses(group) : TRUE
             deal == CHOOSE d \in DealsOfGroup(group) : TRUE
             changed == \/ latest.maintenanceStartDate # deal.properties.closedate
                        \/ latest.addonLicenseId # deal.properties.addonlicenseid
         IN /\ CreatesOf(group) = {}
            /\ changed =>
                  /\ Cardinality(UpdatesOf(group)) = 1
                  /\ \A i \in UpdatesOf(group) :
                        ~Processed(i) =>
                        dealUpdateActions[i].properties =
                            [ addonlicenseid |-> latest.addonLicenseId,
                              closedate |-> latest.maintenanceStartDate ]
                  /\ IgnoredWith(group, "eval-up-to-date") = {}
                  /\ \A i \in 1..Len(dealsToUpdate) :
                        dealsToUpdate[i].id = deal.id =>
                            DOMAIN dealsToUpdate[i].properties
                                \subseteq {"addonlicenseid", "closedate"}
            /\ ~changed =>
                  /\ UpdatesOf(group) = {}
                  /\ Cardinality(IgnoredWith(group, "eval-up-to-date")) = 1

\* the deal of an earlier eval is moved to the later, active eval
C10_Witness ==
    /\ pc = "done"
    /\ \E k \in 1..Len(matches) :
          LET group == matches[k] IN
          /\ ~Excluded(group)
          /\ AllFree(group)
          /\ Cardinality(DealsOfGroup(group)) = 1
          /\ Cardinality(LatestLicenses(group)) = 1
          /\ \A l \in LatestLicenses(group) : l.status = "active"
          /\ \E i \in 1..Len(dealsToUpdate) :
                /\ dealsToUpdate[i].id \in DealIdsOfGroup(group)
                /\ DOMAIN dealsToUpdate[i].properties = {"addonlicenseid", "closedate"}

-----------------------------------------------------------------------------
\* the update requests of the run for the deal of the id
RequestsFor(id) == {i \in 1..Len(dealsToUpdate) : dealsToUpdate[i].id = id}

(* C11: inactive eval.  A classified group that is not excluded, has only  *)
(* free licenses, no transaction, one deal and an inactive latest license  *)
(* gets no create action and exactly one update action, which carries the  *)
(* latest license's addonLicenseId and dealstage CLOSED_LOST and nothing   *)
(* else.  Once the update loop has handled it, an update request for the   *)
(* deal sets dealstage, and to CLOSED_LOST, exactly when the stored stage  *)
(* is not CLOSED_LOST; it sets addonlicenseid exactly when the stored one  *)
(* differs; no request is made when neither differs.                       *)
C11_InactiveEval ==
    \A k \in 1..Len(matches) :
      LET group == matches[k] IN
      ( /\ Classified(k)
        /\ ~Excluded(group)
        /\ AllFree(group)
        /\ TransactionsOfGroup(group) = {}
        /\ Cardinality(DealsOfGroup(group)) = 1
        /\ Cardinality(LatestLicenses(group)) = 1
        /\ \A l \in LatestLicenses(group) : l.status = "inactive" )
      => LET latest == CHOOSE l \in LatestLicenses(group) : TRUE
             deal == CHOOSE d \in DealsOfGroup(group) : TRUE
             expected == [k2 \in
                 {k2 \in {"addonlicenseid", "dealstage"} :
                     [addonlicenseid |-> latest.addonLicenseId,
                      dealstage |-> CLOSED_LOST][k2] # deal.properties[k2]}
                 |-> [addonlicenseid |-> latest.addonLicenseId,
                      dealstage |-> CLOSED_LOST][k2]]
         IN /\ CreatesOf(group) = {}
            /\ Cardinality(UpdatesOf(group)) = 1
            /\ \A i \in UpdatesOf(group) :
                  /\ ~Processed(i) =>
                        dealUpdateActions[i].properties =
                            [ addonlicenseid |-> latest.addonLicenseId,
                              dealstage |-> CLOSED_LOST ]
                  /\ Processed(i) =>
                        /\ Cardinality(RequestsFor(deal.id)) =
                               IF DOMAIN expected = {} THEN 0 ELSE 1
                        /\ \A j \in RequestsFor(deal.id) :
                              /\ dealsToUpdate[j].properties = expected
                              /\ ("dealstage" \in DOMAIN dealsToUpdate[j].properties)
                                    <=> (deal.properties.dealstage # CLOSED_LOST)

\* the deal of an inactive eval, stored at another stage than CLOSED_LOST,
\* is closed by the run
C11_Witness ==
    /\ pc = "done"
    /\ \E k \in 1..Len(matches) :
          LET group == matches[k] IN
          /\ ~Excluded(group)
          /\ AllFree(group)
          /\ Cardinality(DealsOfGroup(group)) = 1
          /\ \A l \in LatestLicenses(group) : l.status = "inactive"
          /\ \E d \in DealsOfGroup(group) :
                /\ d.properties.dealstage = CLOSED_WON
                /\ \E j \in RequestsFor(d.id) :
                      Property(dealsToUpdate[j].properties, "dealstage") = CLOSED_LOST

-----------------------------------------------------------------------------
\* the amount the deal of the id has once the requests of the run are applied
AmountAfter(id) ==
    IF \E j \in RequestsFor(id) : "amount" \in DOMAIN dealsToUpdate[j].properties
    THEN LET j == CHOOSE j \in RequestsFor(id) :
                      "amount" \in DOMAIN dealsToUpdate[j].properties
         IN dealsToUpdate[j].properties.amount
    ELSE StoredDeal(id).properties.amount

(* C12: price rule.  For a classified group that is not excluded, holds a  *)
(* paid license and has at most one deal, let the price be the vendor      *)
(* amount of its sale (a transaction that is no refund) of the earliest    *)
(* sale date, or zero when it has no sale.  The amount of every create     *)
(* action and create request of the group denotes the price; once an       *)
(* update action of the group is through the update loop, the amount of    *)
(* its deal, as requested or as left in place, denotes the price; and in   *)
(* a run over the output of the previous run, the deal that an update      *)
(* action of the group targets already stores an amount that denotes the   *)
(* price.                                                                  *)
C12_PriceRule ==
    \A k \in 1..Len(matches) :
      LET group == matches[k] IN
      ( /\ Classified(k)
        /\ ~Excluded(group)
        /\ ~AllFree(group)
        /\ Cardinality(DealsOfGroup(group)) <= 1
        /\ Cardinality(PricesOf(group)) = 1 )
      => LET price == CHOOSE p \in PricesOf(group) : TRUE IN
         /\ \A i \in CreatesOf(group) :
               /\ AmountValue(dealCreateActions[i].amount) = price
               /\ pc \in {"updates", "done"} =>
                     AmountValue(dealsToCreate[i].properties.amount) = price
         /\ \A i \in UpdatesOf(group) :
               /\ Processed(i) => AmountValue(AmountAfter(dealUpdateActions[i].id)) = price
               /\ run >= 2 =>
                     AmountValue(StoredDeal(dealUpdateActions[i].id).properties.amount) = price

\* a refund of day 1 and a sale of 100.00 of a later day, on a deal that
\* stores another amount: the update sets the amount of the sale
C12_Witness ==
    /\ pc = "done"
    /\ \E k \in 1..Len(matches) :
          LET group == matches[k] IN
          /\ ~Excluded(group)
          /\ ~AllFree(group)
          /\ Cardinality(DealsOfGroup(group)) = 1
          /\ PricesOf(group) = {10000}
          /\ \E tx \in TransactionsOfGroup(group) :
                tx.saleType = "Refund" /\ tx.saleDate < MaxDate
          /\ \E j \in 1..Len(dealsToUpdate) :
                /\ dealsToUpdate[j].id \in DealIdsOfGroup(group)
                /\ Property(dealsToUpdate[j].properties, "amount") = "100.00"

-----------------------------------------------------------------------------
\* the run has returned nothing
NothingReturned ==
    /\ dealsToCreate = <<>>
    /\ dealsToUpdate = <<>>
    /\ associationsToCreate = <<>>
    /\ associationsToRemove = <<>>

\* the entries of the ignored-group list that hold the licenses of the group
IgnoredEntries(group) ==
    {i \in 1..Len(ignoredLicenseSets) :
        Range(ignoredLicenseSets[i].licenses) = Range(LicensesOf(group))}

(* C13: data-integrity error.  Once the classifier has been called on a    *)
(* group that is not excluded, has only free licenses and holds at least   *)
(* one transaction, the run is aborted: it has returned no list and never  *)
(* will, and the group has no create action, no update action and no       *)
(* entry in the ignored-group list.                                        *)
C13_FreeGroupWithTransactions ==
    \A k \in 1..Len(matches) :
      LET group == matches[k] IN
      ( /\ pc # "start"
        /\ k < gi
        /\ ~Excluded(group)
        /\ AllFree(group)
        /\ TransactionsOfGroup(group) # {} )
      => /\ pc = "aborted"
         /\ NothingReturned
         /\ CreatesOf(group) = {}
         /\ UpdatesOf(group) = {}
         /\ IgnoredEntries(group) = {}

\* the second group is a free one with a sale: the run is aborted although
\* the first group has given an action
C13_Witness ==
    /\ pc = "aborted"
    /\ Len(matches) = 2
    /\ gi = 3
    /\ AllFree(matches[2])
    /\ TransactionsOfGroup(matches[2]) # {}
    /\ ~Excluded(matches[2])
    /\ Len(dealCreateActions) = 1
    /\ NothingReturned

(* An aborted run takes no further step. *)
C13_AbortIsFinal == [][pc # "aborted"]_vars

-----------------------------------------------------------------------------
(* C14: update ids.  Every update action of the classifier, and so every   *)
(* update request, carries the id of a deal of the snapshot; the lookup of *)
(* the update loop therefore finds the deal of the action it is about to   *)
(* handle, and a run is never aborted in the update loop.                  *)
C14_UpdateIdsInSnapshot ==
    /\ \A i \in 1..Len(dealUpdateActions) : HasDeal(dealUpdateActions[i].id)
    /\ \A j \in 1..Len(dealsToUpdate) : HasDeal(dealsToUpdate[j].id)
    /\ pc = "aborted" => (ui = 1 /\ NothingReturned /\ gi > 1)
    /\ pc = "aborted" =>
          /\ AllFree(matches[gi - 1])
          /\ TransactionsOfGroup(matches[gi - 1]) # {}

\* two update actions, of two deals of the snapshot, have become requests
C14_Witness ==
    /\ pc = "done"
    /\ Len(dealUpdateActions) = 2
    /\ Len(dealsToUpdate) = 2
    /\ dealsToUpdate[1].id # dealsToUpdate[2].id
    /\ \A j \in 1..2 : HasDeal(dealsToUpdate[j].id)

-----------------------------------------------------------------------------
\* the contact ids the directory gives for the technical, billing and
\* partner billing emails of the license
DesiredContacts(license) ==
    {data.contactsByEmail[email].hs_object_id :
        email \in {license.techEmail, license.billingEmail, license.partnerEmail}
                  \cap DOMAIN data.contactsByEmail}

\* how many entries of the list associate the contact with the deal
EntryCount(entries, contactId, dealId) ==
    Cardinality({n \in 1..Len(entries) :
                    entries[n] = [contactId |-> contactId, dealId |-> dealId]})

\* the contact ids that occur in the entries of a list
ContactsIn(entries) == {entries[n].contactId : n \in 1..Len(entries)}

(* C15: association diffing.  For every update action that has been       *)
(* through the update loop, with D the contact ids the directory gives for *)
(* the emails of its license and S the contact ids stored on its deal:     *)
(* associationsToCreate holds exactly one entry (contact, deal) for each   *)
(* contact of D not in S and none for another contact, and                 *)
(* associationsToRemove exactly one for each contact of S not in D and     *)
(* none for another; an action without a license has no entry in either    *)
(* list.  No entry names a deal without such an action.                    *)
C15_AssociationDiff ==
    /\ \A i \in 1..Len(dealUpdateActions) :
          Processed(i) =>
            LET action == dealUpdateActions[i]
                S == Range(StoredDeal(action.id).contactIds)
                D == IF action.license = <<>> THEN S
                     ELSE DesiredContacts(action.license[1])
            IN \A contact \in D \cup S \cup ContactsIn(associationsToCreate)
                                   \cup ContactsIn(associationsToRemove) :
                  /\ EntryCount(associationsToCreate, contact, action.id)
                        = IF contact \in D \ S THEN 1 ELSE 0
                  /\ EntryCount(associationsToRemove, contact, action.id)
                        = IF contact \in S \ D THEN 1 ELSE 0
    /\ \A entry \in Range(associationsToCreate) \cup Range(associationsToRemove) :
          \E i \in 1..Len(dealUpdateActions) :
              /\ Processed(i)
              /\ dealUpdateActions[i].id = entry.dealId
              /\ dealUpdateActions[i].license # <<>>

\* a license whose technical and billing emails are one contact and whose
\* partner email is another, on a deal that stores a third: two entries to
\* create, one to remove
C15_Witness ==
    /\ pc = "done"
    /\ Len(dealUpdateActions) = 1
    /\ dealUpdateActions[1].license # <<>>
    /\ dealUpdateActions[1].license[1].techEmail = dealUpdateActions[1].license[1].billingEmail
    /\ Len(associationsToCreate) = 2
    /\ Len(associationsToRemove) = 1

-----------------------------------------------------------------------------
(* C16: contacts of a create request.  Once generateDeals has mapped the   *)
(* create actions, there is one create request per create action, and its  *)
(* contactIds list holds, each once, exactly the contact ids the directory *)
(* gives for the technical, billing and partner billing emails of the      *)
(* action's license.  Create actions add nothing to the association        *)
(* lists: every entry of these carries the id of an update action.         *)
C16_CreateContacts ==
    pc \in {"updates", "done"} =>
      /\ Len(dealsToCreate) = Len(dealCreateActions)
      /\ \A i \in 1..Len(dealsToCreate) :
            LET ids == dealsToCreate[i].contactIds
                D == DesiredContacts(dealCreateActions[i].license)
            IN /\ Range(ids) = D
               /\ Len(ids) = Cardinality(D)
      /\ \A entry \in Range(associationsToCreate) \cup Range(associationsToRemove) :
            \E j \in 1..Len(dealUpdateActions) : dealUpdateActions[j].id = entry.dealId
      /\ dealUpdateActions = <<>> =>
            (associationsToCreate = <<>> /\ associationsToRemove = <<>>)

\* a create request for a license whose technical and billing emails are
\* one contact and whose partner email is another: two contact ids, and no
\* association entry
C16_Witness ==
    /\ pc = "done"
    /\ Len(dealsToCreate) = 1
    /\ dealCreateActions[1].license.techEmail = dealCreateActions[1].license.billingEmail
    /\ dealCreateActions[1].license.partnerEmail # NoEmail
    /\ Len(dealsToCreate[1].contactIds) = 2
    /\ associationsToCreate = <<>>
    /\ associationsToRemove = <<>>

-----------------------------------------------------------------------------
\* the lowercased technical-contact domains of the group, in group order
TechDomains(group) ==
    [i \in 1..Len(group) |-> ToLowerCase(group[i].license.techEmail[2])]

\* the reason of an excluded group of one or two distinct domains: the
\* domains, each once, in the order of their first license, after the tag
BadDomainsReason(group) ==
    LET domains == TechDomains(group)
        others == {d \in Range(domains) : d # domains[1]}
    IN IF others = {} THEN "bad-domains:" \o domains[1]
       ELSE "bad-domains:" \o domains[1] \o "," \o (CHOOSE d \in others : TRUE)

\* the group is one of free licenses only, without transaction
OnlyEvals(group) == AllFree(group) /\ TransactionsOfGroup(group) = {}

(* C17: ignore decisions.  A classified group has at most one entry in the *)
(* ignored-group list, and a group with an entry has no create and no      *)
(* update action.  An excluded group has one entry, whose reason is        *)
(* bad-domains: followed by its distinct domains joined by commas; a group *)
(* of evals without deal whose latest license is inactive has one entry of *)
(* reason inactive-evals; a group of evals whose deal already has the      *)
(* close date and id of its active latest license has one of reason        *)
(* eval-up-to-date.  The list has no other entries, an entry holds the     *)
(* licenses of its group, and the step that appends an entry leaves the    *)
(* run going: the classifier is not aborted by it.                         *)
C17_IgnoreDecisions ==
    /\ \A k \in 1..Len(matches) :
          LET group == matches[k]
              entries == IgnoredEntries(group)
          IN (pc # "start" /\ k < gi) =>
             /\ Cardinality(entries) <= 1
             /\ entries # {} =>
                   /\ CreatesOf(group) = {}
                   /\ UpdatesOf(group) = {}
                   /\ ~(pc = "aborted" /\ k = gi - 1)
             /\ Excluded(group) =>
                   /\ Cardinality(entries) = 1
                   /\ \A i \in entries :
                         ignoredLicenseSets[i].reason = BadDomainsReason(group)
             /\ ( /\ ~Excluded(group)
                  /\ OnlyEvals(group)
                  /\ DealsOfGroup(group) = {}
                  /\ \A l \in LatestLicenses(group) : l.status = "inactive" )
                => /\ Cardinality(entries) = 1
                   /\ \A i \in entries : ignoredLicenseSets[i].reason = "inactive-evals"
             /\ ( /\ ~Excluded(group)
                  /\ OnlyEvals(group)
                  /\ Cardinality(DealsOfGroup(group)) = 1
                  /\ Cardinality(LatestLicenses(group)) = 1
                  /\ \A l \in LatestLicenses(group) :
                        /\ l.status = "active"
                        /\ \A d \in DealsOfGroup(group) :
                              /\ d.properties.closedate = l.maintenanceStartDate
                              /\ d.properties.addonlicenseid = l.addonLicenseId )
                => /\ Cardinality(entries) = 1
                   /\ \A i \in entries : ignoredLicenseSets[i].reason = "eval-up-to-date"
    /\ \A i \in 1..Len(ignoredLicenseSets) :
          \E k \in 1..Len(matches) :
              /\ k < gi
              /\ i \in IgnoredEntries(matches[k])
              /\ ignoredLicenseSets[i].reason
                    \in {BadDomainsReason(matches[k]), "inactive-evals", "eval-up-to-date"}
    /\ Len(ignoredLicenseSets) <= Len(matches)

\* a group of an excluded domain gives one entry, and the group after it is
\* classified and gives a create request
C17_Witness ==
    /\ pc = "done"
    /\ Len(matches) = 2
    /\ Len(ignoredLicenseSets) = 1
    /\ ignoredLicenseSets[1].reason = "bad-domains:gmail.com"
    /\ IgnoredEntries(matches[1]) = {1}
    /\ Len(dealsToCreate) = 1

\* two licenses of two excluded domains: both are in the reason
C17_WitnessTwoDomains ==
    /\ pc = "done"
    /\ Len(ignoredLicenseSets) = 1
    /\ ignoredLicenseSets[1].reason = "bad-domains:gmail.com,partner.io"
    /\ dealsToCreate = <<>>
    /\ dealsToUpdate = <<>>

\* scenario D: two licenses of the partner domain give one entry
C17_WitnessScenarioD ==
    /\ pc = "done"
    /\ Len(matches) = 1
    /\ Len(matches[1]) = 2
    /\ ignoredLicenseSets =
          << [ reason |-> "bad-domains:partner.io", licenses |-> LicensesOf(matches[1]) ] >>
    /\ dealCreateActions = <<>>
    /\ dealUpdateActions = <<>>

-----------------------------------------------------------------------------
(* C18: determinism.  A run of generateDeals on the arguments of an        *)
(* earlier run returns the lists the earlier run returned, whatever the    *)
(* moments of the two runs.                                                *)
C18_Determinism ==
    (pc = "done" /\ previous # <<>>) => result = previous[Len(previous)]

-----------------------------------------------------------------------------
\* the bag b is the bag a without some of its keys
Pruned(a, b) == DOMAIN b \subseteq DOMAIN a /\ \A key \in DOMAIN b : b[key] = a[key]

(* C19: existing deals are read-only.  No step of a run of generateDeals,  *)
(* to its return or to its abort, changes its arguments: every deal of     *)
(* initialDeals keeps its id, its property values and its contact-id list. *)
(* The only object a step of the update loop changes besides the four      *)
(* result lists is the properties object of the update action it handles,  *)
(* when that action has no license, and it only loses keys.                *)
C19_DealsReadOnly ==
    [][ pc # "done" =>
          /\ data' = data
          /\ Len(dealUpdateActions') >= Len(dealUpdateActions)
          /\ \A i \in 1..Len(dealUpdateActions) :
                \/ dealUpdateActions'[i] = dealUpdateActions[i]
                \/ /\ pc = "updates"
                   /\ i = ui
                   /\ dealUpdateActions[i].license = <<>>
                   /\ dealUpdateActions'[i] =
                         [dealUpdateActions[i] EXCEPT !.properties =
                             dealUpdateActions'[i].properties]
                   /\ Pruned(dealUpdateActions[i].properties,
                             dealUpdateActions'[i].properties)
      ]_vars

\* the run has returned a request that closes a deal; the action has lost
\* the license id it shared with the deal, and the deal has kept it
C19_Witness ==
    /\ pc = "done"
    /\ \E i \in 1..Len(dealUpdateActions) :
          /\ dealUpdateActions[i].license = <<>>
          /\ dealUpdateActions[i].properties = [dealstage |-> CLOSED_LOST]
          /\ HasDeal(dealUpdateActions[i].id)
          /\ StoredDeal(dealUpdateActions[i].id).properties.addonlicenseid = "L1"
          /\ StoredDeal(dealUpdateActions[i].id).properties.dealstage # CLOSED_LOST
          /\ \E j \in RequestsFor(dealUpdateActions[i].id) :
                dealsToUpdate[j].properties = [dealstage |-> CLOSED_LOST]

-----------------------------------------------------------------------------
\* the snapshot fields that have been assigned
AssignedFields == {f \in DOMAIN EmptyFields : db.fields[f] # EmptyFields[f]}

\* every download of both batches has completed
EveryDownloadCompleted ==
    /\ \A i \in 1..Len(FirstBatch) : db.first[i] = "fulfilled"
    /\ \A i \in 1..Len(SecondBatch) : db.second[i] = "fulfilled"

\* a download has failed
SomeDownloadFailed ==
    \/ \E i \in 1..Len(FirstBatch) : db.first[i] = "rejected"
    \/ \E i \in 1..Len(SecondBatch) : db.second[i] = "rejected"

\* the list of the records of a feed of the services
Feed(name) == << <<name, db.remote>> >>

(* C20: snapshot assembly.  In every state of downloadAllData, whatever    *)
(* the order in which the downloads completed: a snapshot field is         *)
(* assigned only when every download of both batches has completed, and    *)
(* then all eight are; their values are those computed from the feeds of   *)
(* the services, each at its place in the array of the first batch; and    *)
(* when a download has failed no field is assigned.  A download of the     *)
(* second batch is started only when every one of the first has completed. *)
C20_SnapshotAssembly ==
    /\ AssignedFields # {} =>
          /\ EveryDownloadCompleted
          /\ db.at = "resolved"
          /\ AssignedFields = DOMAIN EmptyFields
          /\ db.fields.allDeals = Feed("allDeals")
          /\ db.fields.allCompanies = Feed("allCompanies")
          /\ db.fields.allContacts = Feed("allContacts")
          /\ db.fields.providerDomains = {<<"provider", <<"freeDomains", db.remote>>>>}
          /\ db.fields.allLicenses =
                << <<"valid", <<"licensesWithDataInsights", db.remote>>,
                     <<"regex", Feed("allTlds")>> >>,
                   <<"valid", <<"licensesWithoutDataInsights", db.remote>>,
                     <<"regex", Feed("allTlds")>> >> >>
          /\ db.fields.allTransactions =
                << <<"valid", <<"allTransactions", db.remote>>,
                     <<"regex", Feed("allTlds")>> >> >>
          /\ db.fields.licenses =
                [i \in 1..2 |-> <<"normalized", db.fields.allLicenses[i]>>]
          /\ db.fields.transactions =
                << <<"normalized", db.fields.allTransactions[1]>> >>
    /\ SomeDownloadFailed => AssignedFields = {}
    /\ db.at = "resolved" => AssignedFields = DOMAIN EmptyFields
    /\ (\E i \in 1..Len(SecondBatch) : db.second[i] # "unstarted") =>
          \A i \in 1..Len(FirstBatch) : db.first[i] = "fulfilled"

\* the snapshot is assigned after a run in which the first download of the
\* array, the free email providers, was the last to complete
C20_Witness ==
    /\ db.at = "resolved"
    /\ db.last = 1
    /\ AssignedFields = DOMAIN EmptyFields

\* a download of the second batch has failed after the first batch had
\* completed, and another manager has its entities: no field is assigned
C20_WitnessFailure ==
    /\ db.at = "rejected"
    /\ \A i \in 1..Len(FirstBatch) : db.first[i] = "fulfilled"
    /\ db.second[2] = "rejected"
    /\ db.entities[3] # <<>>
    /\ AssignedFields = {}

\* the deals of the snapshot that carry the id of a license of the event
LicenseDeals(event) ==
    {d \in Range(data.initialDeals) :
        \E i \in 1..Len(event.licenses) :
            d.properties.addonlicenseid = event.licenses[i].addonLicenseId}

\* the step is generateFrom handling an event of one of the types
Handles(types) ==
    /\ pc = "events"
    /\ ei <= Len(events)
    /\ ei' = ei + 1
    /\ events[ei].type \in types

\* the fields of a deal that identify the record it stands for
IdentifyingFields == {"addonlicenseid", "transactionid"}

\* generateFrom handles an eval event whose licenses reference at most one
\* deal
EvalCase ==
    /\ Handles({"eval"})
    /\ Cardinality(LicenseDeals(events[ei])) <= 1

\* what generateFrom appends for an eval event: with no deal one create at
\* EVAL for the last license, with a deal at another stage nothing, with a
\* deal at EVAL only updates of that deal that set identifying fields the
\* deal does not carry
EvalCommon ==
    LET event == events[ei]
        latest == event.licenses[Len(event.licenses)]
    IN /\ LicenseDeals(event) = {}
          => /\ Len(Appended) = 1
             /\ Appended[1].type = "create"
             /\ Appended[1].properties.dealstage = EVAL
             /\ Appended[1].properties.addonlicenseid = latest.addonLicenseId
       /\ \A d \in LicenseDeals(event) :
             /\ d.properties.dealstage # EVAL => Appended = <<>>
             /\ d.properties.dealstage = EVAL
                => \A i \in 1..Len(Appended) :
                      /\ Appended[i].type = "update"
                      /\ Appended[i].deal = d
                      /\ DOMAIN Appended[i].properties \subseteq IdentifyingFields
                      /\ DOMAIN Appended[i].properties # {}
                      /\ \A key \in DOMAIN Appended[i].properties :
                            Appended[i].properties[key] # d.properties[key]

\* a deal at EVAL gets one update, whatever it carries
AlwaysOne ==
    \A d \in LicenseDeals(events[ei]) :
        d.properties.dealstage = EVAL => Len(Appended) = 1

\* a deal at EVAL gets one update when it carries another license id than
\* the latest license's, none when it carries that id already
OneIfChanged ==
    LET event == events[ei]
        latest == event.licenses[Len(event.licenses)]
    IN \A d \in LicenseDeals(event) :
          d.properties.dealstage = EVAL
          => Len(Appended) = (IF d.properties.addonlicenseid # latest.addonLicenseId
                              THEN 1 ELSE 0)

(* C21, as amended: ActionGenerator eval rule.  For an eval event, with no *)
(* deal found for its licenses exactly one create action at stage EVAL is  *)
(* appended; with the found deal at EVAL, exactly one update action on     *)
(* that deal when the deal does not carry the latest license's id, which   *)
(* sets identifying fields only and never dealstage, and no action when    *)
(* the deal carries that id already; with the found deal at any other      *)
(* stage, no action.                                                       *)
C21_EvalRule == [][EvalCase => (EvalCommon /\ OneIfChanged)]_vars

\* an eval event of two licenses has refreshed the license id of the deal
\* at EVAL that its first license references
C21_Witness ==
    /\ pc = "generated"
    /\ Len(events) = 1
    /\ events[1].type = "eval"
    /\ \E d \in LicenseDeals(events[1]) : d.properties.dealstage = EVAL
    /\ Len(actions) = 1
    /\ actions[1].type = "update"
    /\ DOMAIN actions[1].properties = {"addonlicenseid"}

\* an eval event has found a deal at EVAL that carries the latest license's
\* id, and no action was returned
C21_WitnessUpToDate ==
    /\ pc = "generated"
    /\ Len(events) = 1
    /\ events[1].type = "eval"
    /\ \E d \in LicenseDeals(events[1]) : d.properties.dealstage = EVAL
    /\ actions = <<>>

(* C21 as stated: for an eval event whose found deal is at EVAL an update  *)
(* action on that deal is always returned.                                 *)
C21_EvalAlwaysUpdates == [][EvalCase => (EvalCommon /\ AlwaysOne)]_vars

\* the deals of the snapshot that carry the id of the event's transaction
TransactionDeals(event) ==
    {d \in Range(data.initialDeals) :
        \E i \in 1..Len(event.transaction) :
            d.properties.transactionid = event.transaction[i].transactionId}

\* the deals found for a purchase event: those its licenses reference, and
\* those its transaction references when the licenses reference none
PurchaseDeals(event) ==
    IF LicenseDeals(event) # {} THEN LicenseDeals(event) ELSE TransactionDeals(event)

\* generateFrom handles a purchase event for which at most one deal is found
PurchaseCase ==
    /\ Handles({"purchase"})
    /\ Cardinality(PurchaseDeals(events[ei])) <= 1

(* C22: ActionGenerator purchase rule.  For a purchase event, with no deal *)
(* found exactly one create action at stage CLOSED_WON is appended; with   *)
(* the found deal at EVAL exactly one update action on that deal, which    *)
(* sets dealstage to CLOSED_WON; with the found deal at CLOSED_WON or      *)
(* CLOSED_LOST no action.                                                  *)
C22_PurchaseRule ==
    [][ PurchaseCase
        => LET event == events[ei]
           IN /\ PurchaseDeals(event) = {}
                 => /\ Len(Appended) = 1
                    /\ Appended[1].type = "create"
                    /\ Appended[1].properties.dealstage = CLOSED_WON
              /\ \A d \in PurchaseDeals(event) :
                    /\ d.properties.dealstage = EVAL
                       => /\ Len(Appended) = 1
                          /\ Appended[1].type = "update"
                          /\ Appended[1].deal = d
                          /\ Property(Appended[1].properties, "dealstage") = CLOSED_WON
                    /\ d.properties.dealstage \in {CLOSED_WON, CLOSED_LOST}
                       => Appended = <<>>
      ]_vars

\* a purchase event has moved the deal at EVAL that it found to CLOSED_WON
C22_Witness ==
    /\ pc = "generated"
    /\ Len(events) = 1
    /\ events[1].type = "purchase"
    /\ \E d \in PurchaseDeals(events[1]) :
          /\ PurchaseDeals(events[1]) = {d}
          /\ d.properties.dealstage = EVAL
          /\ Len(actions) = 1
          /\ actions[1].type = "update"
          /\ actions[1].deal = d
          /\ actions[1].properties.dealstage = CLOSED_WON

\* a purchase event has found a deal at CLOSED_LOST and returned no action
C22_WitnessClosed ==
    /\ pc = "generated"
    /\ Len(events) = 1
    /\ events[1].type = "purchase"
    /\ \E d \in PurchaseDeals(events[1]) :
          /\ PurchaseDeals(events[1]) = {d}
          /\ d.properties.dealstage = CLOSED_LOST
    /\ actions = <<>>

\* the action appended is the one that follows from the deal: one update of
\* it when it is at EVAL, nothing otherwise
DecidedBy(deal) ==
    IF deal.properties.dealstage = EVAL
    THEN /\ Len(Appended) = 1
         /\ Appended[1].type = "update"
         /\ Appended[1].deal = deal
    ELSE Appended = <<>>

(* C23: purchase deal matching order.  For a purchase event whose licenses *)
(* reference at most one deal and whose transaction references at most one *)
(* deal, the deal used is the one the licenses reference when there is     *)
(* one, also when the transaction references another deal, and the one the *)
(* transaction references only when the licenses reference none; an event  *)
(* without a transaction whose licenses reference no deal finds no deal.   *)
C23_MatchingOrder ==
    [][ ( /\ Handles({"purchase"})
          /\ Cardinality(LicenseDeals(events[ei])) <= 1
          /\ Cardinality(TransactionDeals(events[ei])) <= 1 )
        => LET event == events[ei]
               used == purchaseDeal(data.initialDeals, event)
           IN /\ \A d \in LicenseDeals(event) :
                    /\ used = <<d>>
                    /\ DecidedBy(d)
              /\ LicenseDeals(event) = {}
                 => /\ \A t \in TransactionDeals(event) :
                          /\ used = <<t>>
                          /\ DecidedBy(t)
                    /\ TransactionDeals(event) = {}
                       => /\ used = <<>>
                          /\ Len(Appended) = 1
                          /\ Appended[1].type = "create"
              /\ event.transaction = <<>>
                 => /\ used = getDeal(data.initialDeals, event.licenses)
                    /\ LicenseDeals(event) = {} => Appended[1].type = "create"
      ]_vars

\* a purchase event whose licenses reference a deal at CLOSED_LOST and whose
\* transaction references another deal, at EVAL, has returned no action
C23_Witness ==
    /\ pc = "generated"
    /\ Len(events) = 1
    /\ events[1].type = "purchase"
    /\ \E d \in LicenseDeals(events[1]), t \in TransactionDeals(events[1]) :
          /\ d # t
          /\ LicenseDeals(events[1]) = {d}
          /\ TransactionDeals(events[1]) = {t}
          /\ d.properties.dealstage = CLOSED_LOST
          /\ t.properties.dealstage = EVAL
    /\ actions = <<>>

\* a purchase event whose licenses reference no deal has moved the deal at
\* EVAL that its transaction references to CLOSED_WON
C23_WitnessByTransaction ==
    /\ pc = "generated"
    /\ Len(events) = 1
    /\ events[1].type = "purchase"
    /\ LicenseDeals(events[1]) = {}
    /\ \E t \in TransactionDeals(events[1]) :
          /\ t.properties.dealstage = EVAL
          /\ Len(actions) = 1
          /\ actions[1].type = "update"
          /\ actions[1].deal = t

\* the events of the types among the events
EventsOf(types) == {i \in 1..Len(events) : events[i].type \in types}

\* the create actions among the actions of generateFrom
CreateActions == {i \in 1..Len(actions) : actions[i].type = "create"}

\* the deals of the snapshot that carry the id of the transaction of a
\* renewal or upgrade event
RenewedDeals(event) ==
    {d \in Range(data.initialDeals) :
        d.properties.transactionid = event.transaction.transactionId}

(* C24: renewals and upgrades always create.  When generateFrom handles a  *)
(* renewal or upgrade event it appends exactly one action, a create at     *)
(* stage CLOSED_WON carrying the id, license id, date and amount of the    *)
(* event's transaction, whatever deals the snapshot holds; so what         *)
(* generateFrom returns has at least as many create actions as the events  *)
(* have renewals and upgrades.                                             *)
C24_RenewalCreates ==
    /\ [][ Handles({"renewal", "upgrade"})
           => LET transaction == events[ei].transaction
              IN /\ Len(Appended) = 1
                 /\ Appended[1].type = "create"
                 /\ Appended[1].properties.dealstage = CLOSED_WON
                 /\ Appended[1].properties.transactionid = transaction.transactionId
                 /\ Appended[1].properties.addonlicenseid = transaction.addonLicenseId
                 /\ Appended[1].properties.closedate = transaction.saleDate
                 /\ AmountValue(Appended[1].properties.amount) = transaction.vendorAmount
         ]_vars
    /\ [](pc = "generated"
          => Cardinality(CreateActions) >= Cardinality(EventsOf({"renewal", "upgrade"})))

\* a renewal and an upgrade have given two create actions, though a deal of
\* the snapshot carries the id of the renewal's transaction
C24_Witness ==
    /\ pc = "generated"
    /\ Len(events) = 2
    /\ events[1].type = "renewal"
    /\ events[2].type = "upgrade"
    /\ RenewedDeals(events[1]) # {}
    /\ Len(actions) = 2
    /\ \A i \in 1..2 : actions[i].type = "create"

\* the strings that the identifiers of the managed deals hold
IdentifierStrings ==
    {id[1] : id \in ({d.data.addonLicenseId : d \in ManagedDeals}
                     \cup {d.data.transactionId : d \in ManagedDeals}) \ {<<>>}}

\* the last deal of the list whose identifier is the non-empty string, if any
LastWith(deals, identifier, string) ==
    LET hits == {i \in 1..Len(deals) : deals[i].data[identifier] = <<string>>}
    IN IF string = "" \/ hits = {} THEN <<>> ELSE <<deals[Max(hits)]>>

\* the index holds, for every string, the last deal of the list that carries
\* it, and when the list has none what the other index held for it
IndexIs(map, deals, identifier, otherwise) ==
    \A string \in IdentifierStrings :
        MapGet(map, string) =
            IF LastWith(deals, identifier, string) # <<>>
            THEN LastWith(deals, identifier, string)
            ELSE MapGet(otherwise, string)

(* C25: deal index consistency.  After addIndexes(deals, TRUE) each of the *)
(* two lookups returns, for a string, the last deal of deals that carries  *)
(* it as the non-empty identifier, and nothing when no deal does: nothing  *)
(* of the indexes before the call is left.  After addIndexes(deals, FALSE) *)
(* the same holds for the strings that deals carry, and every other string *)
(* returns what it returned before the call.  No index ever has the empty  *)
(* string as a key.                                                        *)
C25_IndexConsistency ==
    /\ "" \notin DOMAIN dealManager.dealsByAddonLicenseId
    /\ "" \notin DOMAIN dealManager.dealsByTransactionId
    /\ getByAddonLicenseId("") = <<>>
    /\ getByTransactionId("") = <<>>
    /\ (dealManager.calls > 0 /\ dealManager.full)
       => /\ IndexIs(dealManager.dealsByAddonLicenseId, dealManager.deals,
                     "addonLicenseId", EmptyMap)
          /\ IndexIs(dealManager.dealsByTransactionId, dealManager.deals,
                     "transactionId", EmptyMap)
    /\ (dealManager.calls > 0 /\ ~dealManager.full)
       => /\ IndexIs(dealManager.dealsByAddonLicenseId, dealManager.deals,
                     "addonLicenseId", dealManager.before.dealsByAddonLicenseId)
          /\ IndexIs(dealManager.dealsByTransactionId, dealManager.deals,
                     "transactionId", dealManager.before.dealsByTransactionId)

\* a full rebuild over two deals of the license L1, after a snapshot that
\* had a deal of the license L2 and a deal of the transaction AT-1: the
\* second of the two deals is found for L1, nothing for L2 and for AT-1
C25_Witness ==
    /\ dealManager.calls = 2
    /\ dealManager.full
    /\ "L2" \in DOMAIN dealManager.before.dealsByAddonLicenseId
    /\ "AT-1" \in DOMAIN dealManager.before.dealsByTransactionId
    /\ dealManager.deals = <<DealEntity("2", <<"L1">>, <<"AT-1">>),
                             DealEntity("1", <<"L1">>, <<>>)>>
    /\ getByAddonLicenseId("L1") = <<DealEntity("1", <<"L1">>, <<>>)>>
    /\ getByAddonLicenseId("L2") = <<>>
    /\ getByTransactionId("AT-1") = <<DealEntity("2", <<"L1">>, <<"AT-1">>)>>

\* an addition of a deal of the transaction AT-1 with an empty license id
\* to indexes that held a deal of L1 and another deal of AT-1: the deal of L1
\* is kept, the deal of AT-1 replaced
C25_WitnessAddition ==
    /\ dealManager.calls = 2
    /\ ~dealManager.full
    /\ dealManager.deals = <<DealEntity("3", <<"">>, <<"AT-1">>)>>
    /\ MapGet(dealManager.before.dealsByTransactionId, "AT-1")
          = <<DealEntity("2", <<"L1">>, <<"AT-1">>)>>
    /\ getByTransactionId("AT-1") = <<DealEntity("3", <<"">>, <<"AT-1">>)>>
    /\ getByAddonLicenseId("L1") = <<DealEntity("2", <<"L1">>, <<"AT-1">>)>>

\* how many elements the step appends to a list
Grown(before, after) == Len(after) - Len(before)

\* the step is one call of generateActionsForMatchedGroup
ClassifiesGroup ==
    /\ pc = "classify"
    /\ gi <= Len(matches)
    /\ gi' = gi + 1

(* C26: at most one action per group.  One call of                         *)
(* generateActionsForMatchedGroup appends at most one element to           *)
(* dealCreateActions and dealUpdateActions together, leaves what the lists *)
(* held in place, and appends none when it records the group as ignored or *)
(* aborts; so the two lists never hold more elements than groups were      *)
(* classified.                                                             *)
C26_OneActionPerGroup ==
    /\ [][ ClassifiesGroup
           => /\ Grown(dealCreateActions, dealCreateActions') \in {0, 1}
              /\ Grown(dealUpdateActions, dealUpdateActions') \in {0, 1}
              /\ Grown(dealCreateActions, dealCreateActions')
                    + Grown(dealUpdateActions, dealUpdateActions') <= 1
              /\ SubSeq(dealCreateActions', 1, Len(dealCreateActions)) = dealCreateActions
              /\ SubSeq(dealUpdateActions', 1, Len(dealUpdateActions)) = dealUpdateActions
              /\ (Grown(ignoredLicenseSets, ignoredLicenseSets') > 0 \/ pc' = "aborted")
                 => /\ dealCreateActions' = dealCreateActions
                    /\ dealUpdateActions' = dealUpdateActions
         ]_vars
    /\ [](pc = "classify"
          => Len(dealCreateActions) + Len(dealUpdateActions) + Len(ignoredLicenseSets)
                <= gi - 1)

\* two groups have been classified: one has given a create action and the
\* other an update action
C26_Witness ==
    /\ pc = "classify"
    /\ gi = 3
    /\ Len(dealCreateActions) = 1
    /\ Len(dealUpdateActions) = 1
    /\ ignoredLicenseSets = <<>>

\* a group of two licenses with a deal has given exactly one update action
C26_WitnessPair ==
    /\ pc = "classify"
    /\ gi = 2
    /\ Len(matches[1]) = 2
    /\ DealsOfGroup(matches[1]) # {}
    /\ Len(dealUpdateActions) = 1
    /\ dealCreateActions = <<>>

\* the license started more than ninety days before the moment of the run
Aged(license) == now - license.maintenanceStartDate > NINETY_DAYS

\* every license of the group did
AllAged(group) == \A i \in 1..Len(group) : Aged(group[i].license)

\* the groups of the argument
AllGroups == Range(data.allMatches)

\* the group has left a trace in what the run has built so far
LeftTrace(group) ==
    \/ CreatesOf(group) # {}
    \/ UpdatesOf(group) # {}
    \/ IgnoredEntries(group) # {}
    \/ \E i \in 1..Len(dealsToCreate) :
          dealsToCreate[i].properties.addonlicenseid \in LicenseIds(group)
    \/ \E i \in 1..Len(dealsToUpdate) : dealsToUpdate[i].id \in DealIdsOfGroup(group)
    \/ \E i \in 1..Len(associationsToCreate) :
          associationsToCreate[i].dealId \in DealIdsOfGroup(group)
    \/ \E i \in 1..Len(associationsToRemove) :
          associationsToRemove[i].dealId \in DealIdsOfGroup(group)

\* a free group that holds a transaction: the classifier would abort on it
Inconsistent(group) ==
    ~Excluded(group) /\ AllFree(group) /\ TransactionsOfGroup(group) # {}

RECURSIVE Without(_, _)
\* the list without the elements of the set
Without(list, dropped) ==
    IF list = <<>> THEN <<>>
    ELSE (IF Head(list) \in dropped THEN <<>> ELSE <<Head(list)>>)
         \o Without(Tail(list), dropped)

(* C27: age filter.  Once generateDeals has filtered its groups, the       *)
(* groups it classifies are those that have a license started at most      *)
(* ninety days before the moment of the run, in their order; a group of    *)
(* which every license started more than ninety days before is not among   *)
(* them and gets no create, update or association action and no ignored    *)
(* entry, and the run is not aborted when such groups are the only ones    *)
(* that hold a transaction on free licenses.                               *)
C27_AgeFilter ==
    pc # "start"
    => /\ matches = Without(data.allMatches, {g \in AllGroups : AllAged(g)})
       /\ \A group \in AllGroups :
             /\ AllAged(group) => ~LeftTrace(group)
             /\ ~AllAged(group) => group \in Range(matches)
       /\ (\A group \in AllGroups : Inconsistent(group) => AllAged(group))
          => pc # "aborted"
       /\ pc \in {"updates", "done"} => gi > Len(matches)

\* the run has returned: the group of an old eval with a sale was dropped,
\* the group of an old license and a recent one was classified and has
\* given an action
C27_Witness ==
    /\ pc = "done"
    /\ Len(data.allMatches) = 2
    /\ Len(data.allMatches[1]) = 2
    /\ AllAged(data.allMatches[2])
    /\ Inconsistent(data.allMatches[2])
    /\ Aged(data.allMatches[1][1].license)
    /\ ~Aged(data.allMatches[1][2].license)
    /\ matches = <<data.allMatches[1]>>
    /\ LeftTrace(data.allMatches[1])

\* a call of the redactor is in progress
InCall == redactor.at # "idle"

\* some value the generator can draw ends the loop
SomeDrawEnds ==
    \E value \in redactor.range :
        ~(redactor.mustBeUnique /\ value \in DOMAIN redactor.redactions)

(* C28: termination of a redactor.  Every call of the redactor returns:    *)
(* whenever a call is in progress, the do/while loop ends and the redactor *)
(* is idle again, also for Redact.region, which must be unique and draws   *)
(* one of four values.                                                     *)
C28_Termination == InCall ~> ~InCall

(* C28, on the states: while a call is in progress, some value that the    *)
(* generator can draw ends the loop.                                       *)
C28_LoopCanEnd == InCall => SomeDrawEnds

\* Redact.region has redacted four distinct values and returned
C28_FourRedacted ==
    /\ ~InCall
    /\ Cardinality(DOMAIN redactor.redactions) = 4

====
